---- MODULE Spec2Model ----
(***************************************************************************)
(* StellaVM (Example/StellaVM/vm/src/vm_impl.cpp): the bytecode verifier,  *)
(* the interpreter loop of VM::run_unchecked with its peephole fusion,     *)
(* call frames, step budget, profiling and tracing, and the host           *)
(* operations that drive a VM between runs.                                *)
(*                                                                         *)
(* A 64-bit integer is modelled IntBits wide: every place where the source *)
(* says 64 / 63 reads IntBits / IntBits - 1 here.                          *)
(***************************************************************************)
EXTENDS Integers, Sequences, FiniteSets, TLC

\* ------------------------------------------------------------------ bounds
\* width of the modelled std::int64_t
IntBits == 4
\* largest step budget the host sets
MaxBudget == 2
\* most instructions one run dispatches in the model (the cap of executed_steps)
MaxSteps == 10
\* most runs the host starts on one VM
MaxRuns == 2

\* ------------------------------------------------------------------ integers
RECURSIVE Pow2(_)
Pow2(n) == IF n = 0 THEN 1 ELSE 2 * Pow2(n - 1)

Modulus == Pow2(IntBits)
MinI64 == -Pow2(IntBits - 1)
MaxI64 == Pow2(IntBits - 1) - 1
I64Range == MinI64..MaxI64
\* the largest legal shift amount (63 in the source)
MaxShift == IntBits - 1

\* two's-complement reduction of a mathematical integer
WrapI64(n) == ((n - MinI64) % Modulus) + MinI64
\* the unsigned bit pattern of a signed value
ToUnsigned(n) == n % Modulus
Abs(n) == IF n < 0 THEN -n ELSE n
\* C++ operator% truncates toward zero: the result has the sign of lhs
TruncMod(l, r) == IF l < 0 THEN -(Abs(l) % Abs(r)) ELSE l % Abs(r)

RECURSIVE BitFold(_, _, _, _)
\* bitwise combination of two unsigned patterns, bit k downwards
BitFold(f, a, b, k) ==
    IF k = 0 THEN 0
    ELSE LET ba == a % 2
             bb == b % 2
             bit == CASE f = "and" -> IF ba = 1 /\ bb = 1 THEN 1 ELSE 0
                      [] f = "or"  -> IF ba = 1 \/ bb = 1 THEN 1 ELSE 0
                      [] OTHER     -> IF ba # bb THEN 1 ELSE 0
         IN bit + 2 * BitFold(f, a \div 2, b \div 2, k - 1)

BitOp(f, l, r) == WrapI64(BitFold(f, ToUnsigned(l), ToUnsigned(r), IntBits))

\* floor division by a power of two: the arithmetic right shift
FloorDiv(l, d) == (l - (l % d)) \div d

\* ------------------------------------------------------------------ builds
\* Signed overflow of lhs + rhs, lhs - rhs, lhs * rhs and INT64_MIN % -1 are
\* undefined behaviour: a build wraps or traps on overflow, and yields 0 or
\* traps on the division.
Builds ==
    { [overflow |-> "wrap", minmod |-> "trap"],
      [overflow |-> "wrap", minmod |-> "zero"],
      [overflow |-> "trap", minmod |-> "trap"] }

\* ------------------------------------------------------------------ values
Kinds == {"empty", "i64", "f64", "borrowed_string", "owned_string", "buffer"}

\* v: the integer, or the id of the text / of the bytes; ptr: a buffer's data pointer
EmptyValue == [kind |-> "empty", v |-> 0, ptr |-> 0]
I64(n) == [kind |-> "i64", v |-> n, ptr |-> 0]
F64(n) == [kind |-> "f64", v |-> n, ptr |-> 0]
BorrowedString(s) == [kind |-> "borrowed_string", v |-> s, ptr |-> 0]
OwnedString(s) == [kind |-> "owned_string", v |-> s, ptr |-> 0]
OwnedBuffer(p, bytes) == [kind |-> "buffer", v |-> bytes, ptr |-> p]

is_i64(val) == val.kind = "i64"
is_buffer(val) == val.kind = "buffer"

\* Value(const Value&): a buffer is deep-copied into a new allocation at `fresh`
\* Value::take_buffer: of a buffer, the MoveBuffer is moved out and the Value
\* is left empty; of anything else, invalid_buffer_access and the Value as it was
take_buffer_leaves_value(val) ==
    IF ~is_buffer(val)
    THEN [ok |-> FALSE, err |-> "invalid_buffer_access",
          buffer |-> [ptr |-> 0, bytes |-> <<>>], value |-> val]
    ELSE [ok |-> TRUE, err |-> "none", buffer |-> [ptr |-> val.ptr, bytes |-> val.v],
          value |-> val]
take_buffer(val) ==
    IF ~is_buffer(val)
    THEN [ok |-> FALSE, err |-> "invalid_buffer_access",
          buffer |-> [ptr |-> 0, bytes |-> <<>>], value |-> val]
    ELSE [ok |-> TRUE, err |-> "none", buffer |-> [ptr |-> val.ptr, bytes |-> val.v],
          value |-> EmptyValue]

CopyValue(val, fresh) == IF is_buffer(val) THEN OwnedBuffer(fresh, val.v) ELSE val
\* the allocation counter after copying val
HeapAfterCopy(val, heap) == IF is_buffer(val) THEN heap + 1 ELSE heap

\* ------------------------------------------------------------------ results
Ok(val) == [ok |-> TRUE, value |-> val, err |-> "none"]
Err(kind) == [ok |-> FALSE, value |-> EmptyValue, err |-> kind]
NoResult == [ok |-> FALSE, value |-> EmptyValue, err |-> "no_run"]
Crash == [ok |-> FALSE, value |-> EmptyValue, err |-> "process_abort"]

\* ------------------------------------------------------------------ state
VARIABLES
    program,            \* the Program the host runs: [code, constants, functions]
    build,              \* how this build resolves the undefined arithmetic
    to_bind,            \* the bindings the host registers, in order
    stack_,             \* VM::stack_
    call_frames_,       \* VM::call_frames_: [return_pc, base, local_count]
    inputs_,            \* VM::inputs_
    native_bindings_,   \* VM::native_bindings_: [name, arity, function]
    step_budget_,       \* VM::step_budget_
    trace_sink_,        \* TRUE while a trace sink is installed
    profiling_enabled_, \* VM::profiling_enabled_
    profile_stats_,     \* VM::profile_stats_: [runs, executed_steps, opcode_counts]
    pc,                 \* run_unchecked's pc
    executed_steps,     \* run_unchecked's executed_steps
    phase,              \* "host", "running", or "aborted" (the process died)
    entry,              \* how the current or last run was started: "run", "run_unchecked"
    last_result,        \* what the last run / run_unchecked call returned
    runs,               \* calls of run and run_unchecked so far
    run_start,          \* what the last call of run / run_unchecked found
    trace_events,       \* the events the sink received during that call
    native_calls,       \* the adapter invocations during that call
    heap_next,          \* the next fresh buffer address
    traversal,          \* a call of verify under way: its status and its locals
    arena,              \* an Arena, the Markers taken on it, the destructors it ran
    codec,              \* bytecode: the bytes at hand and what the decoder made of them
    held                \* a Value in the host's hands and what take_buffer gave it

vars == <<program, build, to_bind, stack_, call_frames_, inputs_, native_bindings_,
          step_budget_, trace_sink_, profiling_enabled_, profile_stats_, pc,
          executed_steps, phase, entry, last_result, runs, run_start, trace_events,
          native_calls, heap_next, traversal, arena, codec, held>>

\* the objects beside the VM
Beside == <<arena, codec, held>>
\* the VM, the program and the host's view of both
TheVM == <<program, build, to_bind, stack_, call_frames_, inputs_, native_bindings_,
           step_budget_, trace_sink_, profiling_enabled_, profile_stats_, pc,
           executed_steps, phase, entry, last_result, runs, run_start, trace_events,
           native_calls, heap_next, traversal>>

\* ------------------------------------------------------------------ C++ arithmetic
Val(n) == [trap |-> FALSE, v |-> n]
Trap == [trap |-> TRUE, v |-> 0]

\* a signed result that may not be representable: undefined when it is not
Overflowing(x) ==
    IF x \in I64Range THEN Val(x)
    ELSE IF build.overflow = "wrap" THEN Val(WrapI64(x)) ELSE Trap

CppAdd(l, r) == Overflowing(l + r)
CppSub(l, r) == Overflowing(l - r)
CppMul(l, r) == Overflowing(l * r)
\* r # 0; INT64_MIN % -1 is undefined
CppMod(l, r) ==
    IF l = MinI64 /\ r = -1
    THEN IF build.minmod = "zero" THEN Val(0) ELSE Trap
    ELSE Val(TruncMod(l, r))
\* 0 <= r <= MaxShift; C++20: the value congruent to l * 2^r modulo 2^N
CppShl(l, r) == Val(WrapI64(l * Pow2(r)))
\* 0 <= r <= MaxShift; C++20: arithmetic shift
CppShr(l, r) == Val(FloorDiv(l, Pow2(r)))

\* ------------------------------------------------------------------ programs
Ins(op, operand) == [opcode |-> op, operand |-> operand]
Fn(e, a, lc) == [entry |-> e, arity |-> a, local_count |-> lc]
Prog(code, constants, functions) ==
    [code |-> code, constants |-> constants, functions |-> functions]

BinaryOpcodes ==
    {"add_i64", "sub_i64", "mul_i64", "mod_i64", "cmp_eq_i64", "cmp_lt_i64",
     "and_i64", "or_i64", "xor_i64", "shl_i64", "shr_i64"}

OpCodes ==
    BinaryOpcodes \cup
    {"push_constant", "push_input", "jump", "jump_if_true", "dup", "pop", "call",
     "ret", "load_local", "store_local", "call_native", "halt"}

\* a byte that is no OpCode enumerator
UnknownOpcode == "op_255"

CodeSize(p) == Len(p.code)
\* program.code[pc], pc counted from 0 as in the source
InstrAt(p, at) == p.code[at + 1]

\* ------------------------------------------------------------------ natives
Binding(name, arity, function) == [name |-> name, arity |-> arity, function |-> function]
\* a binding registered with an empty std::function
NullFunction == "null"

\* ------------------------------------------------------------------ VM::verify
\* an std::optional<std::size_t> that holds no value
None == -1

MinOf(S) == CHOOSE x \in S : \A y \in S : x <= y

\* the state of verify's traversal
VerifyState(depths, end_depth, worklist, err) ==
    [depths |-> depths, end_depth |-> end_depth, worklist |-> worklist, err |-> err]

enqueue_successor_again(st, p, at, depth) ==
    IF at = CodeSize(p)
    THEN IF st.end_depth = None
         THEN [st EXCEPT !.end_depth = depth]
         ELSE IF st.end_depth # depth
              THEN [st EXCEPT !.err = "verification_failed"]
              ELSE st
    ELSE IF at > CodeSize(p)
    THEN [st EXCEPT !.err = "invalid_jump_target"]
    ELSE IF st.depths[at + 1] = None
    THEN [st EXCEPT !.depths[at + 1] = depth, !.worklist = Append(@, at)]
    ELSE IF st.depths[at + 1] # depth
    THEN [st EXCEPT !.err = "verification_failed"]
    ELSE [st EXCEPT !.worklist = Append(@, at)]
\* the lambda enqueue_successor(pc, depth)
enqueue_successor(st, p, at, depth) ==
    IF at = CodeSize(p)
    THEN IF st.end_depth = None
         THEN [st EXCEPT !.end_depth = depth]
         ELSE IF st.end_depth # depth
              THEN [st EXCEPT !.err = "verification_failed"]
              ELSE st
    ELSE IF at > CodeSize(p)
    THEN [st EXCEPT !.err = "invalid_jump_target"]
    ELSE IF st.depths[at + 1] = None
    THEN [st EXCEPT !.depths[at + 1] = depth, !.worklist = Append(@, at)]
    ELSE IF st.depths[at + 1] # depth
    THEN [st EXCEPT !.err = "verification_failed"]
    ELSE st

Effect(err, pops, pushes, target, fallthrough) ==
    [err |-> err, pops |-> pops, pushes |-> pushes, target |-> target,
     fallthrough |-> fallthrough]

\* the opcode switch of verify: operand checks, pops, pushes and successors
VerifyEffect_admits_next_input(ins, stack_depth, p, available_inputs, bindings) ==
    CASE ins.opcode = "push_constant" ->
           IF ins.operand >= Len(p.constants)
           THEN Effect("invalid_constant_index", 0, 0, None, TRUE)
           ELSE Effect("none", 0, 1, None, TRUE)
      [] ins.opcode = "push_input" ->
           IF ins.operand > available_inputs
           THEN Effect("invalid_input_index", 0, 0, None, TRUE)
           ELSE Effect("none", 0, 1, None, TRUE)
      [] ins.opcode \in BinaryOpcodes -> Effect("none", 2, 1, None, TRUE)
      [] ins.opcode = "call_native" ->
           IF ins.operand >= Len(bindings)
           THEN Effect("invalid_native_index", 0, 0, None, TRUE)
           ELSE IF bindings[ins.operand + 1].function = NullFunction
           THEN Effect("empty_native_binding", 0, 0, None, TRUE)
           ELSE Effect("none", bindings[ins.operand + 1].arity, 1, None, TRUE)
      [] ins.opcode = "jump" -> Effect("none", 0, 0, ins.operand, FALSE)
      [] ins.opcode = "jump_if_true" -> Effect("none", 1, 0, ins.operand, TRUE)
      [] ins.opcode = "dup" ->
           IF stack_depth = 0
           THEN Effect("stack_underflow", 0, 0, None, TRUE)
           ELSE Effect("none", 0, 1, None, TRUE)
      [] ins.opcode = "pop" -> Effect("none", 1, 0, None, TRUE)
      [] ins.opcode = "call" ->
           IF ins.operand >= Len(p.functions)
           THEN Effect("invalid_function_index", 0, 0, None, TRUE)
           ELSE Effect("none", p.functions[ins.operand + 1].arity, 1, None, TRUE)
      [] ins.opcode = "ret" -> Effect("none", 1, 0, None, FALSE)
      [] ins.opcode = "load_local" -> Effect("none", 0, 1, None, TRUE)
      [] ins.opcode = "store_local" -> Effect("none", 1, 0, None, TRUE)
      [] ins.opcode = "halt" -> Effect("none", 0, 0, None, FALSE)
      [] OTHER -> Effect("unknown_opcode", 0, 0, None, TRUE)
VerifyEffect(ins, stack_depth, p, available_inputs, bindings) ==
    CASE ins.opcode = "push_constant" ->
           IF ins.operand >= Len(p.constants)
           THEN Effect("invalid_constant_index", 0, 0, None, TRUE)
           ELSE Effect("none", 0, 1, None, TRUE)
      [] ins.opcode = "push_input" ->
           IF ins.operand >= available_inputs
           THEN Effect("invalid_input_index", 0, 0, None, TRUE)
           ELSE Effect("none", 0, 1, None, TRUE)
      [] ins.opcode \in BinaryOpcodes -> Effect("none", 2, 1, None, TRUE)
      [] ins.opcode = "call_native" ->
           IF ins.operand >= Len(bindings)
           THEN Effect("invalid_native_index", 0, 0, None, TRUE)
           ELSE IF bindings[ins.operand + 1].function = NullFunction
           THEN Effect("empty_native_binding", 0, 0, None, TRUE)
           ELSE Effect("none", bindings[ins.operand + 1].arity, 1, None, TRUE)
      [] ins.opcode = "jump" -> Effect("none", 0, 0, ins.operand, FALSE)
      [] ins.opcode = "jump_if_true" -> Effect("none", 1, 0, ins.operand, TRUE)
      [] ins.opcode = "dup" ->
           IF stack_depth = 0
           THEN Effect("stack_underflow", 0, 0, None, TRUE)
           ELSE Effect("none", 0, 1, None, TRUE)
      [] ins.opcode = "pop" -> Effect("none", 1, 0, None, TRUE)
      [] ins.opcode = "call" ->
           IF ins.operand >= Len(p.functions)
           THEN Effect("invalid_function_index", 0, 0, None, TRUE)
           ELSE Effect("none", p.functions[ins.operand + 1].arity, 1, None, TRUE)
      [] ins.opcode = "ret" -> Effect("none", 1, 0, None, FALSE)
      [] ins.opcode = "load_local" -> Effect("none", 0, 1, None, TRUE)
      [] ins.opcode = "store_local" -> Effect("none", 1, 0, None, TRUE)
      [] ins.opcode = "halt" -> Effect("none", 0, 0, None, FALSE)
      [] OTHER -> Effect("unknown_opcode", 0, 0, None, TRUE)

\* if (stack_depth < pops)
Underflow_off_by_one(stack_depth, pops) == stack_depth + 1 < pops
Underflow(stack_depth, pops) == stack_depth < pops

\* one iteration of the worklist loop: the last PC of the worklist is visited
VerifyVisit_ignores_target(st, p, available_inputs, bindings) ==
    LET at == st.worklist[Len(st.worklist)]
        popped == [st EXCEPT !.worklist = SubSeq(@, 1, Len(@) - 1)]
        stack_depth == IF st.depths[at + 1] = None THEN 0 ELSE st.depths[at + 1]
        eff == VerifyEffect(InstrAt(p, at), stack_depth, p, available_inputs, bindings)
        next_depth == (stack_depth - eff.pops) + eff.pushes
        after_target ==
            IF eff.target = None THEN popped
            ELSE IF eff.target >= CodeSize(p) THEN popped
            ELSE enqueue_successor(popped, p, eff.target, next_depth)
    IN IF eff.err # "none" THEN [popped EXCEPT !.err = eff.err]
       ELSE IF Underflow(stack_depth, eff.pops) THEN [popped EXCEPT !.err = "stack_underflow"]
       ELSE IF after_target.err # "none" THEN after_target
       ELSE IF eff.fallthrough
       THEN enqueue_successor(after_target, p, at + 1, next_depth)
       ELSE after_target
VerifyVisit(st, p, available_inputs, bindings) ==
    LET at == st.worklist[Len(st.worklist)]
        popped == [st EXCEPT !.worklist = SubSeq(@, 1, Len(@) - 1)]
        stack_depth == IF st.depths[at + 1] = None THEN 0 ELSE st.depths[at + 1]
        eff == VerifyEffect(InstrAt(p, at), stack_depth, p, available_inputs, bindings)
        next_depth == (stack_depth - eff.pops) + eff.pushes
        after_target ==
            IF eff.target = None THEN popped
            ELSE IF eff.target >= CodeSize(p)
            THEN [popped EXCEPT !.err = "invalid_jump_target"]
            ELSE enqueue_successor(popped, p, eff.target, next_depth)
    IN IF eff.err # "none" THEN [popped EXCEPT !.err = eff.err]
       ELSE IF Underflow(stack_depth, eff.pops) THEN [popped EXCEPT !.err = "stack_underflow"]
       ELSE IF after_target.err # "none" THEN after_target
       ELSE IF eff.fallthrough
       THEN enqueue_successor(after_target, p, at + 1, next_depth)
       ELSE after_target

RECURSIVE VerifyLoop(_, _, _, _)
\* while (!worklist.empty())
VerifyLoop(st, p, available_inputs, bindings) ==
    IF st.err # "none" \/ st.worklist = <<>> THEN st
    ELSE VerifyLoop(VerifyVisit(st, p, available_inputs, bindings), p, available_inputs,
                    bindings)

\* the function table checks that precede the traversal
FunctionTableError_signature_first(p) ==
    LET bad == {i \in 1..Len(p.functions) :
                    \/ p.functions[i].entry >= CodeSize(p)
                    \/ p.functions[i].local_count < p.functions[i].arity}
    IN IF bad = {} THEN "none"
       ELSE IF p.functions[MinOf(bad)].local_count < p.functions[MinOf(bad)].arity
       THEN "invalid_function_signature"
       ELSE "invalid_function_index"
FunctionTableError(p) ==
    LET bad == {i \in 1..Len(p.functions) :
                    \/ p.functions[i].entry >= CodeSize(p)
                    \/ p.functions[i].local_count < p.functions[i].arity}
    IN IF bad = {} THEN "none"
       ELSE IF p.functions[MinOf(bad)].entry >= CodeSize(p)
       THEN "invalid_function_index"
       ELSE "invalid_function_signature"

\* the locals of verify before the traversal: no depth recorded, nothing to visit
Blank(p) == VerifyState([i \in 1..CodeSize(p) |-> None], None, <<>>, "none")

VerifyPreamble_enters_functions(p) ==
    IF p.code = <<>> THEN [Blank(p) EXCEPT !.err = "verification_failed"]
    ELSE IF FunctionTableError(p) # "none"
    THEN [Blank(p) EXCEPT !.err = FunctionTableError(p)]
    ELSE IF p.functions = <<>> THEN enqueue_successor(Blank(p), p, 0, 0)
    ELSE enqueue_successor(enqueue_successor(Blank(p), p, p.functions[1].entry,
                                             p.functions[1].local_count), p, 0, 0)
\* verify up to the worklist loop: the empty program, the function table, the entry
VerifyPreamble(p) ==
    IF p.code = <<>> THEN [Blank(p) EXCEPT !.err = "verification_failed"]
    ELSE IF FunctionTableError(p) # "none"
    THEN [Blank(p) EXCEPT !.err = FunctionTableError(p)]
    ELSE enqueue_successor(Blank(p), p, 0, 0)

\* no call of verify is under way
NotVerifying == [status |-> "idle", st |-> VerifyState(<<>>, None, <<>>, "none")]

\* verify(program, available_inputs): err is "none" when the program is accepted
Verify(p, available_inputs, bindings) ==
    VerifyLoop(VerifyPreamble(p), p, available_inputs, bindings)

\* ------------------------------------------------------------------ the machine
\* std::vector helpers
Back(s) == s[Len(s)]
PopBack(s) == SubSeq(s, 1, Len(s) - 1)
\* std::vector::resize: truncates, or appends default (empty) Values
Resize(s, n) ==
    IF n <= Len(s) THEN SubSeq(s, 1, n)
    ELSE s \o [i \in 1..(n - Len(s)) |-> EmptyValue]

\* the VM and the locals of run_unchecked as one record
Machine(stack, frames, inputs, at, steps, heap, prof, trace, ncalls, ph, result) ==
    [stack |-> stack, frames |-> frames, inputs |-> inputs, pc |-> at, steps |-> steps,
     heap |-> heap, prof |-> prof, trace |-> trace, ncalls |-> ncalls, phase |-> ph,
     result |-> result]

M == Machine(stack_, call_frames_, inputs_, pc, executed_steps, heap_next,
             profile_stats_, trace_events, native_calls, phase, last_result)

RunProfileGuardExit_always(prof) == [prof EXCEPT !.runs = @ + 1]
\* ~RunProfileGuard: a profiled run counts itself when run_unchecked returns
RunProfileGuardExit(prof) ==
    IF profiling_enabled_ THEN [prof EXCEPT !.runs = @ + 1] ELSE prof

\* run_unchecked returns res
Finish(m, res) ==
    [m EXCEPT !.phase = "host", !.result = res, !.prof = RunProfileGuardExit(@)]
\* run_unchecked returns an error
Fail(m, kind) == Finish(m, Err(kind))
\* the process dies inside run_unchecked
Abort(m) == [m EXCEPT !.phase = "aborted", !.result = Crash]
\* ++pc at the end of the loop body
AdvancePc(m) == [m EXCEPT !.pc = @ + 1]

\* the step budget check at the head of the loop body
BudgetCheck_late(steps, budget) == budget # 0 /\ steps > budget
BudgetCheck(steps, budget) == budget # 0 /\ steps >= budget
BudgetExceeded(m) == BudgetCheck(m.steps, step_budget_)

TraceEvent_depth_for_size(at, opcode, stack_size, call_depth) ==
    [pc |-> at, opcode |-> opcode, stack_size |-> call_depth, call_depth |-> stack_size]
TraceEvent(at, opcode, stack_size, call_depth) ==
    [pc |-> at, opcode |-> opcode, stack_size |-> stack_size, call_depth |-> call_depth]

\* InstructionProfileGuard's constructor
InstructionProfileGuard(prof, opcode) ==
    IF profiling_enabled_
    THEN [prof EXCEPT !.executed_steps = @ + 1, !.opcode_counts[opcode] = @ + 1]
    ELSE prof

Dispatch_charges_tracing(m) ==
    LET ins == InstrAt(program, m.pc)
    IN [m EXCEPT !.steps = @ + (IF trace_sink_ THEN 2 ELSE 1),
                 !.prof = InstructionProfileGuard(@, ins.opcode),
                 !.trace = IF trace_sink_
                           THEN Append(@, TraceEvent(m.pc, ins.opcode, Len(m.stack),
                                                     Len(m.frames)))
                           ELSE @]
\* what every dispatched step does before the opcode switch
Dispatch(m) ==
    LET ins == InstrAt(program, m.pc)
    IN [m EXCEPT !.steps = @ + 1,
                 !.prof = InstructionProfileGuard(@, ins.opcode),
                 !.trace = IF trace_sink_
                           THEN Append(@, TraceEvent(m.pc, ins.opcode, Len(m.stack),
                                                     Len(m.frames)))
                           ELSE @]

\* VM::pop_value: [ok, m, value]
pop_value(m) ==
    IF m.stack = <<>>
    THEN [ok |-> FALSE, m |-> m, value |-> EmptyValue]
    ELSE [ok |-> TRUE, m |-> [m EXCEPT !.stack = PopBack(@)], value |-> Back(m.stack)]

\* ------------------------------------------------------------------ i64 opcodes
\* what an execute_*_i64 function returns, with the machine it leaves
OpValue(m, n) == [status |-> "value", m |-> m, v |-> n, err |-> "none"]
OpError(m, kind) == [status |-> "error", m |-> m, v |-> 0, err |-> kind]
OpTrap(m) == [status |-> "trap", m |-> m, v |-> 0, err |-> "none"]
OpOf(m, c) == IF c.trap THEN OpTrap(m) ELSE OpValue(m, c.v)

\* the head shared by the execute_*_i64 functions: pop rhs, pop lhs, expect both i64
PopOperands(m) ==
    LET r == pop_value(m)
        l == pop_value(r.m)
    IN IF ~r.ok THEN [err |-> "stack_underflow", m |-> r.m, lhs |-> 0, rhs |-> 0]
       ELSE IF ~l.ok THEN [err |-> "stack_underflow", m |-> l.m, lhs |-> 0, rhs |-> 0]
       ELSE IF ~is_i64(l.value) THEN [err |-> "type_mismatch", m |-> l.m, lhs |-> 0, rhs |-> 0]
       ELSE IF ~is_i64(r.value) THEN [err |-> "type_mismatch", m |-> l.m, lhs |-> 0, rhs |-> 0]
       ELSE [err |-> "none", m |-> l.m, lhs |-> l.value.v, rhs |-> r.value.v]

execute_add_i64(m) ==
    LET o == PopOperands(m)
    IN IF o.err # "none" THEN OpError(o.m, o.err) ELSE OpOf(o.m, CppAdd(o.lhs, o.rhs))

execute_sub_i64_reversed(m) ==
    LET o == PopOperands(m)
    IN IF o.err # "none" THEN OpError(o.m, o.err) ELSE OpOf(o.m, CppSub(o.rhs, o.lhs))
execute_sub_i64(m) ==
    LET o == PopOperands(m)
    IN IF o.err # "none" THEN OpError(o.m, o.err) ELSE OpOf(o.m, CppSub(o.lhs, o.rhs))

execute_mul_i64(m) ==
    LET o == PopOperands(m)
    IN IF o.err # "none" THEN OpError(o.m, o.err) ELSE OpOf(o.m, CppMul(o.lhs, o.rhs))

execute_mod_i64(m) ==
    LET o == PopOperands(m)
    IN IF o.err # "none" THEN OpError(o.m, o.err)
       ELSE IF o.rhs = 0 THEN OpError(o.m, "division_by_zero")
       ELSE OpOf(o.m, CppMod(o.lhs, o.rhs))

execute_cmp_eq_i64(m) ==
    LET o == PopOperands(m)
    IN IF o.err # "none" THEN OpError(o.m, o.err)
       ELSE OpValue(o.m, IF o.lhs = o.rhs THEN 1 ELSE 0)

execute_cmp_lt_i64(m) ==
    LET o == PopOperands(m)
    IN IF o.err # "none" THEN OpError(o.m, o.err)
       ELSE OpValue(o.m, IF o.lhs < o.rhs THEN 1 ELSE 0)

execute_and_i64(m) ==
    LET o == PopOperands(m)
    IN IF o.err # "none" THEN OpError(o.m, o.err)
       ELSE OpValue(o.m, BitOp("and", o.lhs, o.rhs))

execute_or_i64(m) ==
    LET o == PopOperands(m)
    IN IF o.err # "none" THEN OpError(o.m, o.err)
       ELSE OpValue(o.m, BitOp("or", o.lhs, o.rhs))

execute_xor_i64(m) ==
    LET o == PopOperands(m)
    IN IF o.err # "none" THEN OpError(o.m, o.err)
       ELSE OpValue(o.m, BitOp("xor", o.lhs, o.rhs))

execute_shl_i64_admits_width(m) ==
    LET o == PopOperands(m)
    IN IF o.err # "none" THEN OpError(o.m, o.err)
       ELSE IF o.rhs < 0 \/ o.rhs > MaxShift + 1 THEN OpError(o.m, "invalid_shift_amount")
       ELSE OpOf(o.m, CppShl(o.lhs, o.rhs))
execute_shl_i64(m) ==
    LET o == PopOperands(m)
    IN IF o.err # "none" THEN OpError(o.m, o.err)
       ELSE IF o.rhs < 0 \/ o.rhs > MaxShift THEN OpError(o.m, "invalid_shift_amount")
       ELSE OpOf(o.m, CppShl(o.lhs, o.rhs))

execute_shr_i64(m) ==
    LET o == PopOperands(m)
    IN IF o.err # "none" THEN OpError(o.m, o.err)
       ELSE IF o.rhs < 0 \/ o.rhs > MaxShift THEN OpError(o.m, "invalid_shift_amount")
       ELSE OpOf(o.m, CppShr(o.lhs, o.rhs))

\* a binary opcode's case of the switch: call execute_*, push its value
BinaryCase(m, r) ==
    CASE r.status = "error" -> Fail(r.m, r.err)
      [] r.status = "trap" -> Abort(r.m)
      [] OTHER -> AdvancePc([r.m EXCEPT !.stack = Append(@, I64(r.v))])

\* the inner switch of the fused path: "none" when the next opcode is no i64 binary
FusedCompute(m, opcode, lhs, rhs) ==
    CASE opcode = "add_i64" -> OpOf(m, CppAdd(lhs, rhs))
      [] opcode = "sub_i64" -> OpOf(m, CppSub(lhs, rhs))
      [] opcode = "mul_i64" -> OpOf(m, CppMul(lhs, rhs))
      [] opcode = "mod_i64" ->
           IF rhs = 0 THEN OpError(m, "division_by_zero") ELSE OpOf(m, CppMod(lhs, rhs))
      [] opcode = "cmp_eq_i64" -> OpValue(m, IF lhs = rhs THEN 1 ELSE 0)
      [] opcode = "cmp_lt_i64" -> OpValue(m, IF lhs < rhs THEN 1 ELSE 0)
      [] opcode = "and_i64" -> OpValue(m, BitOp("and", lhs, rhs))
      [] opcode = "or_i64" -> OpValue(m, BitOp("or", lhs, rhs))
      [] opcode = "xor_i64" -> OpValue(m, BitOp("xor", lhs, rhs))
      [] opcode = "shl_i64" ->
           IF rhs < 0 \/ rhs > MaxShift THEN OpError(m, "invalid_shift_amount")
           ELSE OpOf(m, CppShl(lhs, rhs))
      [] opcode = "shr_i64" ->
           IF rhs < 0 \/ rhs > MaxShift THEN OpError(m, "invalid_shift_amount")
           ELSE OpOf(m, CppShr(lhs, rhs))
      [] OTHER -> [status |-> "none", m |-> m, v |-> 0, err |-> "none"]

\* ------------------------------------------------------------------ native adapters
NativeOk(m, val) == [status |-> "value", m |-> m, value |-> val, err |-> "none"]
NativeError(m, kind) == [status |-> "error", m |-> m, value |-> EmptyValue, err |-> kind]
NativeTrap(m) == [status |-> "trap", m |-> m, value |-> EmptyValue, err |-> "none"]

\* run_unchecked(Program {}) called on the VM while a run of it is under way: the
\* entry clears the stack and the frames, the loop has nothing to execute, the
\* return after the loop finds the stack empty; pc and executed_steps are locals of
\* each call
NestedRunUnchecked(m) ==
    [m EXCEPT !.stack = <<>>, !.frames = <<>>, !.prof = RunProfileGuardExit(@)]

\* the adapters the host binds; args is the span over the top `arity` stack slots
\*   stack_size: [](VM& host_vm) { return host_vm.stack().size(); }
\*   sum2:       [](std::int64_t a, std::int64_t b) { return a + b; }
\*   first:      [](std::int64_t a, std::int64_t) { return a; }
\*   depth:      [](VM& vm, std::span<Value>) { return Value::i64(vm.stack().size()); }
\*   reenter:    [&](VM& vm, std::span<Value>) { return vm.run_unchecked(Program {}); }
\*   identity_buffer: takes the buffer of args[0], writes 0x55 to its second
\*               byte and returns it as an owned buffer; the error of
\*               take_buffer when args[0] holds none
identity_buffer_copies(m, args_offset) ==
    LET taken == take_buffer(m.stack[args_offset + 1])
    IN IF ~taken.ok THEN NativeError(m, taken.err)
       ELSE NativeOk([m EXCEPT !.stack[args_offset + 1] = taken.value, !.heap = @ + 1],
                     OwnedBuffer(m.heap, [taken.buffer.bytes EXCEPT ![2] = 85]))
identity_buffer(m, args_offset) ==
    LET taken == take_buffer(m.stack[args_offset + 1])
    IN IF ~taken.ok THEN NativeError(m, taken.err)
       ELSE NativeOk([m EXCEPT !.stack[args_offset + 1] = taken.value],
                     OwnedBuffer(taken.buffer.ptr, [taken.buffer.bytes EXCEPT ![2] = 85]))

\* the Value parameters of the callables bound through the builder; the raw
\* NativeFunction lambdas take the span as it comes
ParameterCount(function) ==
    CASE function \in {"sum2", "first"} -> 2
      [] function \in {"identity", "identity_buffer"} -> 1
      [] OTHER -> None

SignatureMatches_always(function, arity) == TRUE
\* the builder's adapter compares the arity it was bound with, explicit or
\* inferred, with the parameters of the callable before it decodes an argument
SignatureMatches(function, arity) ==
    ParameterCount(function) = None \/ arity = ParameterCount(function)

InvokeAdapter(function, m, args_offset, arity) ==
    LET arg(i) == m.stack[args_offset + i + 1]
    IN CASE ~SignatureMatches(function, arity) ->
              NativeError(m, "invalid_function_signature")
         [] function = "identity" ->
              IF ~is_i64(arg(0)) THEN NativeError(m, "type_mismatch")
              ELSE NativeOk(m, I64(arg(0).v))
         [] function \in {"stack_size", "depth"} -> NativeOk(m, I64(WrapI64(Len(m.stack))))
         [] function = "sum2" ->
              IF ~is_i64(arg(0)) \/ ~is_i64(arg(1)) THEN NativeError(m, "type_mismatch")
              ELSE LET c == CppAdd(arg(0).v, arg(1).v)
                   IN IF c.trap THEN NativeTrap(m) ELSE NativeOk(m, I64(c.v))
         [] function = "first" ->
              IF ~is_i64(arg(0)) \/ ~is_i64(arg(1)) THEN NativeError(m, "type_mismatch")
              ELSE NativeOk(m, I64(arg(0).v))
         [] function = "reenter" -> NativeOk(NestedRunUnchecked(m), EmptyValue)
         [] function = "identity_buffer" -> identity_buffer(m, args_offset)
         [] OTHER -> NativeOk(m, EmptyValue)

\* VM::execute_call_native
execute_call_native_keeps_arguments(m, binding_index) ==
    IF binding_index >= Len(native_bindings_) THEN NativeError(m, "invalid_native_index")
    ELSE LET binding == native_bindings_[binding_index + 1]
         IN IF binding.function = NullFunction THEN NativeError(m, "empty_native_binding")
            ELSE IF Len(m.stack) < binding.arity
            THEN NativeError(m, "insufficient_native_arguments")
            ELSE InvokeAdapter(binding.function, [m EXCEPT !.ncalls = @ + 1],
                               Len(m.stack) - binding.arity, binding.arity)
execute_call_native(m, binding_index) ==
    IF binding_index >= Len(native_bindings_) THEN NativeError(m, "invalid_native_index")
    ELSE LET binding == native_bindings_[binding_index + 1]
         IN IF binding.function = NullFunction THEN NativeError(m, "empty_native_binding")
            ELSE IF Len(m.stack) < binding.arity
            THEN NativeError(m, "insufficient_native_arguments")
            ELSE LET args_offset == Len(m.stack) - binding.arity
                     called == [m EXCEPT !.ncalls = @ + 1]
                     r == InvokeAdapter(binding.function, called, args_offset, binding.arity)
                 IN IF r.status = "value"
                    THEN NativeOk([r.m EXCEPT !.stack = Resize(@, args_offset)], r.value)
                    ELSE r

\* ------------------------------------------------------------------ the opcode switch
\* stack_.push_back(constant): the end of the push_constant case
PushConstantPlain(m, constant) ==
    AdvancePc([m EXCEPT !.stack = Append(@, CopyValue(constant, m.heap)),
                        !.heap = HeapAfterCopy(constant, @)])

\* case OpCode::push_constant, the fused path included
ExecPushConstant(m) ==
    LET ins == InstrAt(program, m.pc)
    IN IF ins.operand >= Len(program.constants) THEN Fail(m, "invalid_constant_index")
       ELSE LET constant == program.constants[ins.operand + 1]
                pushed == PushConstantPlain(m, constant)
            IN IF is_i64(constant) /\ (m.pc + 1) < CodeSize(program) /\ m.stack # <<>>
               THEN IF ~is_i64(Back(m.stack)) THEN Fail(m, "type_mismatch")
                    ELSE LET f == FusedCompute(m, InstrAt(program, m.pc + 1).opcode,
                                               Back(m.stack).v, constant.v)
                         IN CASE f.status = "error" -> Fail(m, f.err)
                              [] f.status = "trap" -> Abort(m)
                              [] f.status = "value" ->
                                   [m EXCEPT !.stack[Len(m.stack)] = I64(f.v), !.pc = @ + 2]
                              [] OTHER -> pushed
               ELSE pushed

ExecPushInput_copies(m) ==
    LET k == InstrAt(program, m.pc).operand
    IN IF k >= Len(m.inputs) THEN Fail(m, "invalid_input_index")
       ELSE AdvancePc([m EXCEPT !.stack = Append(@, m.inputs[k + 1])])
\* case OpCode::push_input
ExecPushInput(m) ==
    LET k == InstrAt(program, m.pc).operand
    IN IF k >= Len(m.inputs) THEN Fail(m, "invalid_input_index")
       ELSE AdvancePc([m EXCEPT !.stack = Append(@, m.inputs[k + 1]),
                                !.inputs[k + 1] = EmptyValue])

\* case OpCode::jump
ExecJump(m) ==
    LET target == InstrAt(program, m.pc).operand
    IN IF target >= CodeSize(program) THEN Fail(m, "invalid_jump_target")
       ELSE [m EXCEPT !.pc = target]

\* case OpCode::jump_if_true
ExecJumpIfTrue_inverted(m) ==
    LET target == InstrAt(program, m.pc).operand
        c == pop_value(m)
    IN IF target >= CodeSize(program) THEN Fail(m, "invalid_jump_target")
       ELSE IF ~c.ok THEN Fail(c.m, "stack_underflow")
       ELSE IF ~is_i64(c.value) THEN Fail(c.m, "type_mismatch")
       ELSE IF c.value.v = 0 THEN [c.m EXCEPT !.pc = target]
       ELSE AdvancePc(c.m)
ExecJumpIfTrue(m) ==
    LET target == InstrAt(program, m.pc).operand
        c == pop_value(m)
    IN IF target >= CodeSize(program) THEN Fail(m, "invalid_jump_target")
       ELSE IF ~c.ok THEN Fail(c.m, "stack_underflow")
       ELSE IF ~is_i64(c.value) THEN Fail(c.m, "type_mismatch")
       ELSE IF c.value.v # 0 THEN [c.m EXCEPT !.pc = target]
       ELSE AdvancePc(c.m)

\* case OpCode::dup
ExecDup(m) ==
    IF m.stack = <<>> THEN Fail(m, "stack_underflow")
    ELSE AdvancePc([m EXCEPT !.stack = Append(@, CopyValue(Back(m.stack), m.heap)),
                             !.heap = HeapAfterCopy(Back(m.stack), @)])

\* case OpCode::pop
ExecPop(m) ==
    IF m.stack = <<>> THEN Fail(m, "stack_underflow")
    ELSE AdvancePc([m EXCEPT !.stack = PopBack(@)])

\* case OpCode::call
ExecCall_returns_to_call(m) ==
    LET operand == InstrAt(program, m.pc).operand
    IN IF operand >= Len(program.functions) THEN Fail(m, "invalid_function_index")
       ELSE LET function == program.functions[operand + 1]
                base == Len(m.stack) - function.arity
            IN IF function.local_count < function.arity
               THEN Fail(m, "invalid_function_signature")
               ELSE IF function.entry >= CodeSize(program)
               THEN Fail(m, "invalid_function_index")
               ELSE IF Len(m.stack) < function.arity THEN Fail(m, "stack_underflow")
               ELSE [m EXCEPT !.stack = Resize(@, base + function.local_count),
                              !.frames = Append(@, [return_pc |-> m.pc, base |-> base,
                                                    local_count |-> function.local_count]),
                              !.pc = function.entry]
ExecCall(m) ==
    LET operand == InstrAt(program, m.pc).operand
    IN IF operand >= Len(program.functions) THEN Fail(m, "invalid_function_index")
       ELSE LET function == program.functions[operand + 1]
                base == Len(m.stack) - function.arity
            IN IF function.local_count < function.arity
               THEN Fail(m, "invalid_function_signature")
               ELSE IF function.entry >= CodeSize(program)
               THEN Fail(m, "invalid_function_index")
               ELSE IF Len(m.stack) < function.arity THEN Fail(m, "stack_underflow")
               ELSE [m EXCEPT !.stack = Resize(@, base + function.local_count),
                              !.frames = Append(@, [return_pc |-> m.pc + 1, base |-> base,
                                                    local_count |-> function.local_count]),
                              !.pc = function.entry]

ExecRet_keeps_locals(m) ==
    LET r == pop_value(m)
    IN IF ~r.ok THEN Fail(r.m, "stack_underflow")
       ELSE IF r.m.frames = <<>> THEN Finish(r.m, Ok(r.value))
       ELSE LET frame == Back(r.m.frames)
                unwound == [r.m EXCEPT !.frames = PopBack(@)]
            IN IF frame.base > Len(unwound.stack) THEN Fail(unwound, "missing_call_frame")
               ELSE [unwound EXCEPT !.stack = Append(@, r.value), !.pc = frame.return_pc]
\* case OpCode::ret
ExecRet(m) ==
    LET r == pop_value(m)
    IN IF ~r.ok THEN Fail(r.m, "stack_underflow")
       ELSE IF r.m.frames = <<>> THEN Finish(r.m, Ok(r.value))
       ELSE LET frame == Back(r.m.frames)
                unwound == [r.m EXCEPT !.frames = PopBack(@)]
            IN IF frame.base > Len(unwound.stack) THEN Fail(unwound, "missing_call_frame")
               ELSE [unwound EXCEPT !.stack = Append(Resize(@, frame.base), r.value),
                                    !.pc = frame.return_pc]

\* case OpCode::load_local
ExecLoadLocal(m) ==
    LET local_index == InstrAt(program, m.pc).operand
    IN IF m.frames = <<>> THEN Fail(m, "missing_call_frame")
       ELSE LET frame == Back(m.frames)
                stack_index == frame.base + local_index
            IN IF local_index >= frame.local_count THEN Fail(m, "invalid_local_index")
               ELSE IF stack_index >= Len(m.stack) THEN Fail(m, "invalid_local_index")
               ELSE AdvancePc([m EXCEPT
                        !.stack = Append(@, CopyValue(m.stack[stack_index + 1], m.heap)),
                        !.heap = HeapAfterCopy(m.stack[stack_index + 1], @)])

\* case OpCode::store_local
ExecStoreLocal_keeps_top(m) ==
    LET local_index == InstrAt(program, m.pc).operand
    IN IF m.frames = <<>> THEN Fail(m, "missing_call_frame")
       ELSE LET frame == Back(m.frames)
                stack_index == frame.base + local_index
            IN IF local_index >= frame.local_count THEN Fail(m, "invalid_local_index")
               ELSE IF m.stack = <<>> THEN Fail(m, "stack_underflow")
               ELSE IF stack_index >= Len(m.stack) THEN Fail(m, "invalid_local_index")
               ELSE AdvancePc([m EXCEPT !.stack[stack_index + 1] = Back(m.stack)])
ExecStoreLocal(m) ==
    LET local_index == InstrAt(program, m.pc).operand
    IN IF m.frames = <<>> THEN Fail(m, "missing_call_frame")
       ELSE LET frame == Back(m.frames)
                stack_index == frame.base + local_index
                v == pop_value(m)
            IN IF local_index >= frame.local_count THEN Fail(m, "invalid_local_index")
               ELSE IF ~v.ok THEN Fail(v.m, "stack_underflow")
               ELSE IF stack_index >= Len(v.m.stack) THEN Fail(v.m, "invalid_local_index")
               ELSE AdvancePc([v.m EXCEPT !.stack[stack_index + 1] = v.value])

\* case OpCode::call_native
ExecCallNative(m) ==
    LET r == execute_call_native(m, InstrAt(program, m.pc).operand)
    IN CASE r.status = "error" -> Fail(r.m, r.err)
         [] r.status = "trap" -> Abort(r.m)
         [] OTHER -> AdvancePc([r.m EXCEPT !.stack = Append(@, r.value)])

\* halt, and the return after the loop: the top of the stack, or the empty Value
ReturnTop(m) ==
    IF m.stack = <<>> THEN Finish(m, Ok(EmptyValue))
    ELSE Finish([m EXCEPT !.stack = PopBack(@)], Ok(Back(m.stack)))

\* case OpCode::halt
ExecHalt_returns_empty(m) == Finish(m, Ok(EmptyValue))
ExecHalt(m) == ReturnTop(m)

\* the default case
ExecUnknown(m) == Fail(m, "unknown_opcode")

\* one case of the switch for every opcode
ExecOpcode(m, opcode) ==
    CASE opcode = "push_constant" -> ExecPushConstant(m)
      [] opcode = "push_input" -> ExecPushInput(m)
      [] opcode = "add_i64" -> BinaryCase(m, execute_add_i64(m))
      [] opcode = "sub_i64" -> BinaryCase(m, execute_sub_i64(m))
      [] opcode = "mul_i64" -> BinaryCase(m, execute_mul_i64(m))
      [] opcode = "mod_i64" -> BinaryCase(m, execute_mod_i64(m))
      [] opcode = "cmp_eq_i64" -> BinaryCase(m, execute_cmp_eq_i64(m))
      [] opcode = "cmp_lt_i64" -> BinaryCase(m, execute_cmp_lt_i64(m))
      [] opcode = "and_i64" -> BinaryCase(m, execute_and_i64(m))
      [] opcode = "or_i64" -> BinaryCase(m, execute_or_i64(m))
      [] opcode = "xor_i64" -> BinaryCase(m, execute_xor_i64(m))
      [] opcode = "shl_i64" -> BinaryCase(m, execute_shl_i64(m))
      [] opcode = "shr_i64" -> BinaryCase(m, execute_shr_i64(m))
      [] opcode = "jump" -> ExecJump(m)
      [] opcode = "jump_if_true" -> ExecJumpIfTrue(m)
      [] opcode = "dup" -> ExecDup(m)
      [] opcode = "pop" -> ExecPop(m)
      [] opcode = "call" -> ExecCall(m)
      [] opcode = "ret" -> ExecRet(m)
      [] opcode = "load_local" -> ExecLoadLocal(m)
      [] opcode = "store_local" -> ExecStoreLocal(m)
      [] opcode = "call_native" -> ExecCallNative(m)
      [] opcode = "halt" -> ExecHalt(m)
      [] OTHER -> ExecUnknown(m)

\* one iteration of the for loop of run_unchecked under a step budget, or the
\* return after the loop
LoopStepUnder(m, budget) ==
    IF m.pc >= CodeSize(program) THEN ReturnTop(m)
    ELSE IF BudgetCheck(m.steps, budget) THEN Fail(m, "step_budget_exceeded")
    ELSE ExecOpcode(Dispatch(m), InstrAt(program, m.pc).opcode)

LoopStep(m) == LoopStepUnder(m, step_budget_)

EnterRun_keeps_stack(m) ==
    [m EXCEPT !.frames = <<>>, !.steps = 0, !.pc = 0, !.phase = "running"]
\* the entry of run_unchecked: clear_stack(), call_frames_.clear(), executed_steps = 0
EnterRun(m) ==
    [m EXCEPT !.stack = <<>>, !.frames = <<>>, !.steps = 0, !.pc = 0,
              !.phase = "running"]

\* ------------------------------------------------------------------ the host's programs
\* x mod 3 < 1 ? x * 3 + 1 : x * 2 + 2 (TEST_CASE executes branch and arithmetic opcodes)
BranchProgram ==
    Prog(<<Ins("push_input", 0), Ins("dup", 0), Ins("push_constant", 0), Ins("mod_i64", 0),
           Ins("push_constant", 1), Ins("cmp_lt_i64", 0), Ins("jump_if_true", 12),
           Ins("push_constant", 2), Ins("mul_i64", 0), Ins("push_constant", 2),
           Ins("add_i64", 0), Ins("jump", 16),
           Ins("push_constant", 0), Ins("mul_i64", 0), Ins("push_constant", 1),
           Ins("add_i64", 0), Ins("halt", 0)>>,
         <<I64(3), I64(1), I64(2)>>, <<>>)

\* f(x) = (x + 1) * 2 with a local (TEST_CASE supports function call frames and locals)
CallProgram ==
    Prog(<<Ins("push_constant", 0), Ins("call", 0), Ins("halt", 0),
           Ins("load_local", 0), Ins("push_constant", 1), Ins("add_i64", 0),
           Ins("store_local", 1), Ins("load_local", 1), Ins("push_constant", 0),
           Ins("mul_i64", 0), Ins("ret", 0)>>,
         <<I64(2), I64(1)>>, <<Fn(3, 1, 2)>>)

\* 5 & 3, << 2, | 2, ^ 3, >> 1 (TEST_CASE executes bitwise and shift opcodes)
BitwiseProgram ==
    Prog(<<Ins("push_constant", 0), Ins("push_constant", 1), Ins("and_i64", 0),
           Ins("push_constant", 2), Ins("shl_i64", 0), Ins("push_constant", 2),
           Ins("or_i64", 0), Ins("push_constant", 1), Ins("xor_i64", 0),
           Ins("push_constant", 3), Ins("shr_i64", 0), Ins("halt", 0)>>,
         <<I64(5), I64(3), I64(2), I64(1)>>, <<>>)

\* two steps (TEST_CASE step budget prevents runaway execution)
BudgetProgram ==
    Prog(<<Ins("push_constant", 0), Ins("halt", 0)>>, <<I64(3)>>, <<>>)

\* a loop that never ends, with a constant stack
LoopProgram ==
    Prog(<<Ins("push_constant", 0), Ins("pop", 0), Ins("jump", 0)>>, <<I64(1)>>, <<>>)

\* a function that calls itself without end
RecursionProgram ==
    Prog(<<Ins("call", 0)>>, <<>>, <<Fn(0, 0, 0)>>)

\* (TEST_CASE verifier rejects inconsistent stack depth at merge)
MergeProgram ==
    Prog(<<Ins("push_constant", 0), Ins("jump_if_true", 3), Ins("push_constant", 0),
           Ins("halt", 0)>>,
         <<I64(1)>>, <<>>)

\* (TEST_CASE verifier rejects invalid jump target)
BadJumpProgram ==
    Prog(<<Ins("jump", 99), Ins("halt", 0)>>, <<>>, <<>>)

\* a conditional jump past the end
BadBranchProgram ==
    Prog(<<Ins("push_constant", 0), Ins("jump_if_true", 9)>>, <<I64(1)>>, <<>>)

\* an opcode byte outside the enumeration, and a constant index out of range
UnknownOpcodeProgram ==
    Prog(<<Ins(UnknownOpcode, 0)>>, <<>>, <<>>)

BadConstantProgram ==
    Prog(<<Ins("push_constant", 1), Ins("halt", 0)>>, <<I64(1)>>, <<>>)

\* no instruction at all
EmptyProgram == Prog(<<>>, <<>>, <<>>)

\* push_input 1 needs two inputs; read twice, slot 0 is empty the second time
InputProgram ==
    Prog(<<Ins("push_input", 0), Ins("pop", 0), Ins("push_input", 0), Ins("halt", 0)>>,
         <<>>, <<>>)

SecondInputProgram ==
    Prog(<<Ins("push_input", 1), Ins("halt", 0)>>, <<>>, <<>>)

\* an i64 constant pushed over an input, followed by no binary opcode
ConstantOverInputProgram ==
    Prog(<<Ins("push_input", 0), Ins("push_constant", 0), Ins("pop", 0), Ins("halt", 0)>>,
         <<I64(1)>>, <<>>)

\* push_constant as the last instruction, and a constant that is no i64
LastConstantProgram ==
    Prog(<<Ins("push_input", 0), Ins("push_constant", 0)>>, <<I64(2)>>, <<>>)

StringConstantProgram ==
    Prog(<<Ins("push_input", 0), Ins("push_constant", 0), Ins("add_i64", 0),
           Ins("halt", 0)>>,
         <<OwnedString(2)>>, <<>>)

\* lhs op rhs through the fused path: the constant rhs is followed by the opcode
FusedProgram(opcode, lhs, rhs) ==
    Prog(<<Ins("push_constant", 0), Ins("push_constant", 1), Ins(opcode, 0),
           Ins("halt", 0)>>,
         <<I64(lhs), I64(rhs)>>, <<>>)

\* lhs op rhs popped by the opcode: a jump separates the constant rhs from it
UnfusedProgram(opcode, lhs, rhs) ==
    Prog(<<Ins("push_constant", 0), Ins("push_constant", 1), Ins("jump", 3),
           Ins(opcode, 0), Ins("halt", 0)>>,
         <<I64(lhs), I64(rhs)>>, <<>>)

\* a binary opcode with one operand only
\* an operation with nothing to work on
BareProgram(opcode) == Prog(<<Ins(opcode, 0)>>, <<>>, <<>>)

OneOperandProgram ==
    Prog(<<Ins("push_constant", 0), Ins("add_i64", 0), Ins("halt", 0)>>, <<I64(1)>>, <<>>)

\* main calls f, f calls g; g has a spare local
NestedCallProgram ==
    Prog(<<Ins("push_constant", 0), Ins("call", 0), Ins("halt", 0),
           Ins("load_local", 0), Ins("call", 1), Ins("ret", 0),
           Ins("load_local", 0), Ins("store_local", 1), Ins("load_local", 1),
           Ins("ret", 0)>>,
         <<I64(3)>>, <<Fn(3, 1, 1), Fn(6, 1, 2)>>)

\* a function that halts instead of returning, under a value of the caller
HaltInFunctionProgram ==
    Prog(<<Ins("push_constant", 0), Ins("push_constant", 1), Ins("call", 0), Ins("halt", 0),
           Ins("load_local", 0), Ins("halt", 0)>>,
         <<I64(1), OwnedString(1)>>, <<Fn(4, 1, 1)>>)

\* a function that returns the value its caller had pushed
ReturnsCallersValueProgram ==
    Prog(<<Ins("push_constant", 0), Ins("call", 0), Ins("halt", 0), Ins("ret", 0)>>,
         <<I64(1)>>, <<Fn(3, 0, 0)>>)

\* function bodies that verify never visits: the entry is reached by call only
PopInFunctionProgram ==
    Prog(<<Ins("call", 0), Ins("halt", 0), Ins("pop", 0), Ins("ret", 0)>>,
         <<>>, <<Fn(2, 0, 0)>>)

UnknownInFunctionProgram ==
    Prog(<<Ins("call", 0), Ins("halt", 0), Ins(UnknownOpcode, 0)>>, <<>>, <<Fn(2, 0, 0)>>)

BadOperandsInFunctionProgram ==
    Prog(<<Ins("push_input", 0), Ins("jump_if_true", 3), Ins("call", 0), Ins("halt", 0),
           Ins("push_constant", 7), Ins("jump", 8)>>,
         <<>>, <<Fn(4, 0, 0), Fn(5, 0, 0)>>)

\* a function whose entry is the instruction after its own call
FallIntoFunctionProgram ==
    Prog(<<Ins("call", 0), Ins("halt", 0)>>, <<>>, <<Fn(1, 0, 0)>>)

\* a call with fewer arguments than the arity, and a call of no function
CallUnderflowProgram ==
    Prog(<<Ins("push_constant", 0), Ins("call", 0), Ins("halt", 0), Ins("ret", 0)>>,
         <<I64(1)>>, <<Fn(3, 2, 2)>>)

BadFunctionIndexProgram ==
    Prog(<<Ins("call", 1), Ins("halt", 0)>>, <<>>, <<Fn(1, 0, 0)>>)

\* function tables that verify refuses
BadEntryProgram ==
    Prog(<<Ins("call", 0), Ins("halt", 0)>>, <<>>, <<Fn(2, 0, 0)>>)

BadSignatureProgram ==
    Prog(<<Ins("push_constant", 0), Ins("call", 0), Ins("halt", 0)>>,
         <<I64(1)>>, <<Fn(2, 1, 0)>>)

\* locals used outside any function, and a local index out of range
LocalWithoutFrameProgram ==
    Prog(<<Ins("load_local", 0), Ins("store_local", 0), Ins("halt", 0)>>, <<>>, <<>>)

StoreWithoutFrameProgram ==
    Prog(<<Ins("push_constant", 0), Ins("store_local", 0), Ins("halt", 0)>>,
         <<I64(1)>>, <<>>)

BadLocalProgram ==
    Prog(<<Ins("push_constant", 0), Ins("call", 0), Ins("halt", 0),
           Ins("load_local", 0), Ins("store_local", 1), Ins("load_local", 2),
           Ins("ret", 0)>>,
         <<I64(1)>>, <<Fn(3, 1, 1)>>)

\* a function that pops its own local and then reads it, and one that stores the
\* only value of its frame, the local itself
PoppedLocalProgram ==
    Prog(<<Ins("call", 0), Ins("halt", 0), Ins("pop", 0), Ins("load_local", 0),
           Ins("ret", 0)>>,
         <<>>, <<Fn(2, 0, 1)>>)

StoreOverItselfProgram ==
    Prog(<<Ins("call", 0), Ins("halt", 0), Ins("store_local", 0), Ins("ret", 0)>>,
         <<>>, <<Fn(2, 0, 1)>>)

\* ret at top level: the program's return value
TopLevelRetProgram ==
    Prog(<<Ins("push_constant", 0), Ins("push_constant", 1), Ins("ret", 0)>>,
         <<OwnedString(1), I64(2)>>, <<>>)

\* dup and pop on an empty stack
DupEmptyProgram == Prog(<<Ins("dup", 0), Ins("halt", 0)>>, <<>>, <<>>)
PopEmptyProgram == Prog(<<Ins("pop", 0), Ins("halt", 0)>>, <<>>, <<>>)

\* call_native 0 over two values (TEST_CASE can call native C++ function)
NativeProgram ==
    Prog(<<Ins("push_input", 0), Ins("push_constant", 0), Ins("call_native", 0),
           Ins("halt", 0)>>,
         <<I64(MaxI64)>>, <<>>)

\* call_native 0 with one value on the stack, call_native 1
NativeOneArgumentProgram ==
    Prog(<<Ins("push_constant", 0), Ins("call_native", 0), Ins("halt", 0)>>,
         <<I64(1)>>, <<>>)

SecondNativeProgram ==
    Prog(<<Ins("push_constant", 0), Ins("call_native", 1), Ins("halt", 0)>>,
         <<I64(1)>>, <<>>)

\* first(1, 2), then depth over the result and one more value
NativeProbeProgram ==
    Prog(<<Ins("push_constant", 0), Ins("push_constant", 1), Ins("call_native", 0),
           Ins("push_constant", 1), Ins("call_native", 1), Ins("halt", 0)>>,
         <<I64(1), I64(2)>>, <<>>)

\* a native that runs the VM it is called from, inside a function, over a value
ReentryProgram ==
    Prog(<<Ins("push_constant", 0), Ins("call", 0), Ins("halt", 0),
           Ins("call_native", 0), Ins("pop", 0), Ins("load_local", 0), Ins("ret", 0)>>,
         <<I64(1)>>, <<Fn(3, 1, 1)>>)

Scenario(p, bindings) == [program |-> p, bindings |-> bindings]

Sum2 == Binding("sum2", 2, "sum2")
StackSize == Binding("stack_size", 0, "stack_size")
EmptyBinding == Binding("unbound", 1, NullFunction)
First2 == Binding("first", 2, "first")
Depth2 == Binding("depth", 2, "depth")
Reenter == Binding("reenter", 0, "reenter")
IdentityBuffer == Binding("identity_buffer", 1, "identity_buffer")
\* vm.native("bad").arity(2).bind([](std::int64_t value) { return value; })
Bad == Binding("bad", 2, "identity")
\* the same callable bound with the arity the builder infers
Identity == Binding("identity", 1, "identity")

PlainPrograms ==
    {BranchProgram, CallProgram, BitwiseProgram,
     BudgetProgram, LoopProgram, RecursionProgram, MergeProgram, BadJumpProgram,
     BadBranchProgram, UnknownOpcodeProgram, BadConstantProgram, EmptyProgram,
     InputProgram, SecondInputProgram, ConstantOverInputProgram, LastConstantProgram,
     StringConstantProgram, OneOperandProgram, NestedCallProgram, HaltInFunctionProgram,
     ReturnsCallersValueProgram,
     PopInFunctionProgram, UnknownInFunctionProgram, BadOperandsInFunctionProgram,
     FallIntoFunctionProgram, CallUnderflowProgram, BadFunctionIndexProgram,
     BadEntryProgram, BadSignatureProgram, LocalWithoutFrameProgram,
     StoreWithoutFrameProgram, BadLocalProgram, PoppedLocalProgram,
     StoreOverItselfProgram, TopLevelRetProgram, DupEmptyProgram, PopEmptyProgram}

\* <<lhs, rhs>>: overflow, INT64_MIN % -1, a zero divisor, shifts out of range
OperandPairs == {<<MinI64, -1>>, <<3, 2>>, <<MaxI64, 1>>, <<-3, 0>>, <<1, IntBits>>}

ArithmeticPrograms ==
    {FusedProgram(op, o[1], o[2]) : op \in BinaryOpcodes, o \in OperandPairs} \cup
    {UnfusedProgram(op, o[1], o[2]) : op \in BinaryOpcodes, o \in OperandPairs}

Scenarios ==
    {Scenario(p, <<>>) : p \in PlainPrograms \cup ArithmeticPrograms} \cup
    {Scenario(NativeProgram, <<Sum2>>), Scenario(NativeProgram, <<StackSize>>),
     Scenario(NativeProgram, <<EmptyBinding>>),
     Scenario(NativeOneArgumentProgram, <<Sum2>>),
     Scenario(SecondNativeProgram, <<Sum2, StackSize>>),
     Scenario(NativeProbeProgram, <<First2, Depth2>>),
     Scenario(ReentryProgram, <<Reenter>>)}

\* the input slots a program reads: one more than its largest push_input operand
InputSlots(p) ==
    LET reads == {p.code[i].operand : i \in {j \in 1..Len(p.code) : p.code[j].opcode = "push_input"}}
    IN IF reads = {} THEN 0 ELSE (CHOOSE x \in reads : \A y \in reads : y <= x) + 1

\* the opcodes whose arithmetic can be undefined; call_native reaches the adapters' sums
UndefinedArithmetic == {"add_i64", "sub_i64", "mul_i64", "mod_i64", "call_native"}

\* a program that executes no undefined arithmetic behaves alike under every build
BuildsFor(p) ==
    IF \E i \in 1..Len(p.code) : p.code[i].opcode \in UndefinedArithmetic
    THEN Builds
    ELSE {[overflow |-> "wrap", minmod |-> "trap"]}

\* the values the host pushes as inputs
InputValues == {I64(MinI64), I64(0), I64(2), OwnedString(1)}

\* ------------------------------------------------------------------ Init
\* Arena::Arena: nothing tracked; no Marker taken, no destructor run, the
\* Arena not destroyed
NewArena ==
    [tracked |-> <<>>, markers |-> <<>>, destroyed |-> <<>>, emplaced |-> 0,
     gone |-> FALSE]
\* no bytecode at hand
NoCodec ==
    [stage |-> "none", origin |-> "none", damage |-> "none", at |-> 0, bytes |-> <<>>,
     source |-> Prog(<<>>, <<>>, <<>>), outcome |-> "none", err |-> "none",
     decoded |-> Prog(<<>>, <<>>, <<>>), offset_ |-> 0, expected |-> NoResult,
     ran |-> 0]
\* no Value in the host's hands
NothingHeld ==
    [stage |-> "none", value |-> EmptyValue, from |-> "none", given |-> <<>>,
     history |-> <<>>]

BesideInit == arena = NewArena /\ codec = NoCodec /\ held = NothingHeld

FreshProfile == [runs |-> 0, executed_steps |-> 0,
                 opcode_counts |-> [o \in OpCodes \cup {UnknownOpcode} |-> 0]]

\* inputs_, step_budget_, the number of bindings and verify's answer when a call of run / run_unchecked
\* begins, and whether an earlier run had left values or frames behind
RunStart(inputs, budget, natives, verdict, residue) ==
    [inputs |-> inputs, budget |-> budget, natives |-> natives, verdict |-> verdict,
     residue |-> residue]
NotStarted == RunStart(<<>>, 0, 0, "none", FALSE)

\* a constructed VM, the program the host holds and the build
InitWith(scenarios) ==
    /\ \E sc \in scenarios :
          /\ program = sc.program
          /\ to_bind = sc.bindings
          /\ build \in BuildsFor(sc.program)
    /\ stack_ = <<>>
    /\ call_frames_ = <<>>
    /\ inputs_ = <<>>
    /\ native_bindings_ = <<>>
    /\ step_budget_ = 0
    /\ trace_sink_ = FALSE
    /\ profiling_enabled_ = FALSE
    /\ profile_stats_ = FreshProfile
    /\ pc = 0
    /\ executed_steps = 0
    /\ phase = "host"
    /\ entry = "none"
    /\ last_result = NoResult
    /\ runs = 0
    /\ run_start = NotStarted
    /\ trace_events = <<>>
    /\ native_calls = 0
    /\ heap_next = 1
    /\ traversal = NotVerifying
    /\ BesideInit

Init == InitWith(Scenarios)

\* ------------------------------------------------------------------ host operations
HostVars == <<program, build, to_bind, traversal, Beside>>
RunVars == <<stack_, call_frames_, pc, executed_steps, phase, entry, last_result, runs,
             run_start, trace_events, native_calls, heap_next>>
ObserverVars == <<trace_sink_, profiling_enabled_, profile_stats_>>

\* the host configures the VM between runs, while it still has a run to make
Configuring == phase = "host" /\ runs < MaxRuns

\* VM::bind_native: the host registers its next binding
BindNative ==
    /\ Configuring
    /\ Len(native_bindings_) < Len(to_bind)
    /\ native_bindings_' = Append(native_bindings_, to_bind[Len(native_bindings_) + 1])
    /\ UNCHANGED <<HostVars, RunVars, ObserverVars, inputs_, step_budget_>>

\* VM::push_input
PushInput ==
    /\ Configuring
    /\ Len(inputs_) < InputSlots(program)
    /\ \E val \in InputValues : inputs_' = Append(inputs_, val)
    /\ UNCHANGED <<HostVars, RunVars, ObserverVars, native_bindings_, step_budget_>>

\* VM::clear_inputs
ClearInputs ==
    /\ Configuring
    /\ inputs_ # <<>>
    /\ inputs_' = <<>>
    /\ UNCHANGED <<HostVars, RunVars, ObserverVars, native_bindings_, step_budget_>>

\* VM::set_step_budget
SetStepBudget ==
    /\ Configuring
    /\ \E max_steps \in 0..MaxBudget :
          /\ max_steps # step_budget_
          /\ step_budget_' = max_steps
    /\ UNCHANGED <<HostVars, RunVars, ObserverVars, native_bindings_, inputs_>>

\* VM::clear_step_budget
ClearStepBudget ==
    /\ Configuring
    /\ step_budget_ # 0
    /\ step_budget_' = 0
    /\ UNCHANGED <<HostVars, RunVars, ObserverVars, native_bindings_, inputs_>>

\* the machine m becomes the state; the locals of a run that returned are gone
Install(m) ==
    /\ stack_' = m.stack
    /\ call_frames_' = m.frames
    /\ inputs_' = m.inputs
    /\ pc' = IF m.phase = "running" THEN m.pc ELSE 0
    /\ executed_steps' = IF m.phase = "running" THEN m.steps ELSE 0
    /\ heap_next' = m.heap
    /\ profile_stats_' = m.prof
    /\ trace_events' = m.trace
    /\ native_calls' = m.ncalls
    /\ phase' = m.phase
    /\ last_result' = m.result
    /\ UNCHANGED <<HostVars, native_bindings_, step_budget_, trace_sink_,
                   profiling_enabled_>>

\* a call of run or run_unchecked begins
BeginCall(how) ==
    /\ phase = "host"
    /\ runs < MaxRuns
    /\ runs' = runs + 1
    /\ entry' = how
    /\ run_start' = RunStart(inputs_, step_budget_, Len(native_bindings_),
                             Verify(program, Len(inputs_), native_bindings_).err,
                             stack_ # <<>> \/ call_frames_ # <<>>)

\* the machine as the call finds it
AtCall == [M EXCEPT !.trace = <<>>, !.ncalls = 0]

\* VM::run_unchecked is called: the run state is reset and the loop starts
RunUnchecked ==
    /\ BeginCall("run_unchecked")
    /\ LET entered == EnterRun(AtCall) IN Install(entered)

Run_resets_first ==
    /\ BeginCall("run")
    /\ LET verify_result == Verify(program, Len(inputs_), native_bindings_)
           entered == EnterRun(AtCall)
           returned == [entered EXCEPT !.phase = "host", !.result = Err(verify_result.err)]
       IN IF verify_result.err # "none" THEN Install(returned) ELSE Install(entered)
\* VM::run is called: verify first, run_unchecked only when it accepts
Run ==
    /\ BeginCall("run")
    /\ LET verify_result == Verify(program, Len(inputs_), native_bindings_)
           returned == [AtCall EXCEPT !.result = Err(verify_result.err)]
           entered == EnterRun(AtCall)
       IN IF verify_result.err # "none" THEN Install(returned) ELSE Install(entered)

\* ------------------------------------------------------------------ the interpreter loop
Running == phase = "running"
\* the loop body is entered and the instruction at pc is dispatched
Dispatching == Running /\ pc < CodeSize(program) /\ ~BudgetExceeded(M)
                 /\ executed_steps < MaxSteps
Fetched == InstrAt(program, pc).opcode

StepFrame == UNCHANGED <<runs, entry, run_start>>

\* the step budget check refuses the next step
StepBudgetExceeded ==
    /\ Running /\ pc < CodeSize(program) /\ BudgetExceeded(M)
    /\ (\E stepped \in {LoopStep(M)} : Install(stepped)) /\ StepFrame

\* pc reached the end of the code: the return after the loop
ImplicitEnd ==
    /\ Running /\ pc >= CodeSize(program)
    /\ (\E stepped \in {LoopStep(M)} : Install(stepped)) /\ StepFrame

\* one action for every case of the opcode switch
StepPushConstant == Dispatching /\ Fetched = "push_constant" /\ (\E stepped \in {LoopStep(M)} : Install(stepped)) /\ StepFrame
StepPushInput == Dispatching /\ Fetched = "push_input" /\ (\E stepped \in {LoopStep(M)} : Install(stepped)) /\ StepFrame
StepAdd == Dispatching /\ Fetched = "add_i64" /\ (\E stepped \in {LoopStep(M)} : Install(stepped)) /\ StepFrame
StepSub == Dispatching /\ Fetched = "sub_i64" /\ (\E stepped \in {LoopStep(M)} : Install(stepped)) /\ StepFrame
StepMul == Dispatching /\ Fetched = "mul_i64" /\ (\E stepped \in {LoopStep(M)} : Install(stepped)) /\ StepFrame
StepMod == Dispatching /\ Fetched = "mod_i64" /\ (\E stepped \in {LoopStep(M)} : Install(stepped)) /\ StepFrame
StepCmpEq == Dispatching /\ Fetched = "cmp_eq_i64" /\ (\E stepped \in {LoopStep(M)} : Install(stepped)) /\ StepFrame
StepCmpLt == Dispatching /\ Fetched = "cmp_lt_i64" /\ (\E stepped \in {LoopStep(M)} : Install(stepped)) /\ StepFrame
StepAnd == Dispatching /\ Fetched = "and_i64" /\ (\E stepped \in {LoopStep(M)} : Install(stepped)) /\ StepFrame
StepOr == Dispatching /\ Fetched = "or_i64" /\ (\E stepped \in {LoopStep(M)} : Install(stepped)) /\ StepFrame
StepXor == Dispatching /\ Fetched = "xor_i64" /\ (\E stepped \in {LoopStep(M)} : Install(stepped)) /\ StepFrame
StepShl == Dispatching /\ Fetched = "shl_i64" /\ (\E stepped \in {LoopStep(M)} : Install(stepped)) /\ StepFrame
StepShr == Dispatching /\ Fetched = "shr_i64" /\ (\E stepped \in {LoopStep(M)} : Install(stepped)) /\ StepFrame
StepJump == Dispatching /\ Fetched = "jump" /\ (\E stepped \in {LoopStep(M)} : Install(stepped)) /\ StepFrame
StepJumpIfTrue == Dispatching /\ Fetched = "jump_if_true" /\ (\E stepped \in {LoopStep(M)} : Install(stepped)) /\ StepFrame
StepDup == Dispatching /\ Fetched = "dup" /\ (\E stepped \in {LoopStep(M)} : Install(stepped)) /\ StepFrame
StepPop == Dispatching /\ Fetched = "pop" /\ (\E stepped \in {LoopStep(M)} : Install(stepped)) /\ StepFrame
StepCall == Dispatching /\ Fetched = "call" /\ (\E stepped \in {LoopStep(M)} : Install(stepped)) /\ StepFrame
StepRet == Dispatching /\ Fetched = "ret" /\ (\E stepped \in {LoopStep(M)} : Install(stepped)) /\ StepFrame
StepLoadLocal == Dispatching /\ Fetched = "load_local" /\ (\E stepped \in {LoopStep(M)} : Install(stepped)) /\ StepFrame
StepStoreLocal == Dispatching /\ Fetched = "store_local" /\ (\E stepped \in {LoopStep(M)} : Install(stepped)) /\ StepFrame
StepCallNative == Dispatching /\ Fetched = "call_native" /\ (\E stepped \in {LoopStep(M)} : Install(stepped)) /\ StepFrame
StepHalt == Dispatching /\ Fetched = "halt" /\ (\E stepped \in {LoopStep(M)} : Install(stepped)) /\ StepFrame
StepUnknown == Dispatching /\ Fetched \notin OpCodes /\ (\E stepped \in {LoopStep(M)} : Install(stepped)) /\ StepFrame

Step ==
    \/ StepBudgetExceeded \/ ImplicitEnd
    \/ StepPushConstant \/ StepPushInput
    \/ StepAdd \/ StepSub \/ StepMul \/ StepMod \/ StepCmpEq \/ StepCmpLt
    \/ StepAnd \/ StepOr \/ StepXor \/ StepShl \/ StepShr
    \/ StepJump \/ StepJumpIfTrue \/ StepDup \/ StepPop
    \/ StepCall \/ StepRet \/ StepLoadLocal \/ StepStoreLocal
    \/ StepCallNative \/ StepHalt \/ StepUnknown

Host ==
    \/ BindNative \/ PushInput \/ ClearInputs \/ SetStepBudget \/ ClearStepBudget
    \/ RunUnchecked \/ Run

Next == Host \/ Step

Spec == Init /\ [][Next]_vars

\* ------------------------------------------------------------------ observers
ConfigVars == <<HostVars, RunVars, native_bindings_, inputs_, step_budget_>>

\* VM::set_trace_sink
SetTraceSink ==
    /\ Configuring /\ ~trace_sink_
    /\ trace_sink_' = TRUE
    /\ UNCHANGED <<ConfigVars, profiling_enabled_, profile_stats_>>

\* VM::clear_trace_sink
ClearTraceSink ==
    /\ Configuring /\ trace_sink_
    /\ trace_sink_' = FALSE
    /\ UNCHANGED <<ConfigVars, profiling_enabled_, profile_stats_>>

\* VM::set_profiling_enabled
SetProfilingEnabled ==
    /\ Configuring
    /\ profiling_enabled_' = ~profiling_enabled_
    /\ UNCHANGED <<ConfigVars, trace_sink_, profile_stats_>>

\* VM::reset_profile
ResetProfile ==
    /\ Configuring /\ profile_stats_ # FreshProfile
    /\ profile_stats_' = FreshProfile
    /\ UNCHANGED <<ConfigVars, trace_sink_, profiling_enabled_>>

Observe == SetTraceSink \/ ClearTraceSink \/ SetProfilingEnabled \/ ResetProfile

\* the programs run under observation
ObservedScenarios ==
    {Scenario(p, <<>>) :
        p \in {CallProgram, MergeProgram, LoopProgram, UnknownOpcodeProgram, InputProgram,
               HaltInFunctionProgram, DupEmptyProgram, EmptyProgram}} \cup
    {Scenario(BareProgram(op), <<>>) : op \in BinaryOpcodes} \cup
    {Scenario(NativeOneArgumentProgram, <<Sum2>>)}

InitObserved == InitWith(ObservedScenarios)
NextObserved == Next \/ Observe
SpecObserved == InitObserved /\ [][NextObserved]_vars

\* ------------------------------------------------------------------ reference runs
\* a newly constructed VM holding the given inputs
FreshVM(inputs) ==
    Machine(<<>>, <<>>, inputs, 0, 0, 1, FreshProfile, <<>>, 0, "host", NoResult)

\* the loop of run_unchecked under `budget`, followed until run_unchecked returns or
\* has dispatched `limit` steps and is about to dispatch another
RECURSIVE RunFor(_, _, _)
RunFor(m, budget, limit) ==
    IF m.phase # "running" THEN m
    ELSE IF m.pc < CodeSize(program) /\ ~BudgetCheck(m.steps, budget) /\ m.steps >= limit
    THEN m
    ELSE RunFor(LoopStepUnder(m, budget), budget, limit)

\* run or run_unchecked called on a newly constructed VM with the same bindings
FreshCall(how, inputs, budget) ==
    LET verdict == Verify(program, Len(inputs), native_bindings_).err
    IN IF how = "run" /\ verdict # "none"
       THEN [FreshVM(inputs) EXCEPT !.result = Err(verdict)]
       ELSE RunFor(EnterRun(FreshVM(inputs)), budget, MaxSteps)

\* the last call has returned and the registry is as that call found it
Returned == phase = "host" /\ runs > 0 /\ Len(native_bindings_) = run_start.natives
\* the last call entered the loop of run_unchecked
LoopRan == entry = "run_unchecked" \/ run_start.verdict = "none"

\* ------------------------------------------------------------------ C1
\* C1: in a run of a program that verify accepted, whenever run_unchecked is about to
\* dispatch the instruction at pc, the value stack holds as many values as verify
\* recorded for pc.
C1_StackConsistency ==
    (Dispatching /\ run_start.verdict = "none") =>
        LET recorded == Verify(program, Len(inputs_), native_bindings_).depths[pc + 1]
        IN recorded # None => Len(stack_) = recorded

\* ------------------------------------------------------------------ C2
StaticErrors ==
    {"stack_underflow", "invalid_constant_index", "invalid_jump_target", "unknown_opcode",
     "invalid_native_index", "empty_native_binding", "insufficient_native_arguments",
     "invalid_function_index"}

\* C2: a run of a program that verify accepted, for the inputs and the registry the
\* run started with, never returns one of the statically checkable errors.
C2_VerifierSoundness ==
    (phase = "host" /\ runs > 0 /\ run_start.verdict = "none") =>
        last_result.err \notin StaticErrors

\* ------------------------------------------------------------------ C3
\* push_constant is about to be dispatched with a constant that exists
PushConstantPoint ==
    /\ Dispatching /\ Fetched = "push_constant"
    /\ InstrAt(program, pc).operand < Len(program.constants)
PushedConstant == program.constants[InstrAt(program, pc).operand + 1]
\* the three conditions under which the claim lets the fusion apply
FusionPoint ==
    /\ PushConstantPoint
    /\ is_i64(PushedConstant)
    /\ pc + 1 < CodeSize(program)
    /\ InstrAt(program, pc + 1).opcode \in BinaryOpcodes
    /\ stack_ # <<>>

\* C3: a push_constant that is not followed by an i64 binary opcode, or finds the
\* stack empty, or loads a constant that is not i64, or is the last instruction,
\* pushes a copy of the constant, moves to pc + 1 and does not fail, whatever the
\* top of the stack is.
C3_PlainPushNeverFails ==
    [][(PushConstantPoint /\ ~FusionPoint) =>
          /\ phase' = "running"
          /\ pc' = pc + 1
          /\ stack_' = Append(stack_, PushedConstant)]_vars

\* ------------------------------------------------------------------ C4
\* the fused path: one step from the fusion point
FusedStep == LoopStep(M)
\* push_constant and the opcode after it as two separate steps
UnfusedSteps ==
    LET first == PushConstantPlain(Dispatch(M), PushedConstant)
    IN ExecOpcode(Dispatch(first), InstrAt(program, first.pc).opcode)
\* how a step ends: the run goes on, returns a result, or the process dies
Outcome(m) == IF m.phase = "running" THEN Ok(Back(m.stack)) ELSE m.result

\* C4 as claimed: from every fusion point the fused step and the two unfused steps
\* leave the same stack, the same next pc (pc + 2) and the same outcome.
C4_FusedEqualsUnfused ==
    FusionPoint =>
        /\ Outcome(FusedStep) = Outcome(UnfusedSteps)
        /\ FusedStep.phase # "aborted" => FusedStep.stack = UnfusedSteps.stack
        /\ FusedStep.phase = "running" => FusedStep.pc = pc + 2 /\ UnfusedSteps.pc = pc + 2

\* C4 amended: the outcome is the same; when the operation succeeds the stack and
\* the next pc (pc + 2) are the same too; when it fails the fused step leaves the
\* stack as it found it while the unfused steps have popped the left operand.
C4_FusedAgreesOnOutcome ==
    FusionPoint =>
        /\ Outcome(FusedStep) = Outcome(UnfusedSteps)
        /\ FusedStep.phase = "running" =>
              /\ FusedStep.stack = UnfusedSteps.stack
              /\ FusedStep.pc = pc + 2 /\ UnfusedSteps.pc = pc + 2
        /\ FusedStep.phase = "host" =>
              /\ FusedStep.stack = stack_
              /\ UnfusedSteps.stack = PopBack(stack_)

\* a fused subtraction is about to replace a left operand other than the constant
C4_Witness ==
    /\ FusionPoint
    /\ InstrAt(program, pc + 1).opcode = "sub_i64"
    /\ is_i64(Back(stack_)) /\ Back(stack_).v # PushedConstant.v
    /\ FusedStep.phase = "running"

\* ------------------------------------------------------------------ C5
\* the run without a budget, followed for as many dispatched steps as the budget
\* of the last call allows
Unbudgeted ==
    RunFor(EnterRun(FreshVM(run_start.inputs)), 0,
           IF run_start.budget = 0 THEN MaxSteps ELSE run_start.budget)

\* C5: under a budget n > 0 a run dispatches at most n steps, and every pass of the
\* loop that does not return dispatches one, so the run ends; a run that finishes
\* within n steps returns what it returns without a budget; a run that needs another
\* step returns step_budget_exceeded with the stack and frames the n steps left;
\* with budget 0 no run returns step_budget_exceeded.
C5_StepBudget ==
    /\ [](
          /\ (Running /\ step_budget_ > 0) => executed_steps <= step_budget_
          /\ (Returned /\ LoopRan) =>
                IF run_start.budget = 0 THEN last_result.err # "step_budget_exceeded"
                ELSE IF Unbudgeted.phase # "running" THEN last_result = Unbudgeted.result
                ELSE /\ last_result = Err("step_budget_exceeded")
                     /\ stack_ = Unbudgeted.stack
                     /\ call_frames_ = Unbudgeted.frames)
    /\ [][(Running /\ Running') => executed_steps' = executed_steps + 1]_vars

\* a run stopped by a budget of MaxBudget steps, with values left on the stack
C5_Witness ==
    /\ Returned /\ LoopRan
    /\ run_start.budget = MaxBudget
    /\ last_result.err = "step_budget_exceeded"
    /\ stack_ # <<>>

\* ------------------------------------------------------------------ C6
\* C6: whatever an earlier run left behind, a call of run or run_unchecked returns
\* what the same call returns on a newly constructed VM with the same inputs,
\* bindings and budget.
C6_RunStateReset ==
    Returned => last_result = FreshCall(entry, run_start.inputs, run_start.budget).result

\* a second run that found values or frames of the first and returned a value
C6_Witness ==
    /\ Returned /\ runs = 2
    /\ run_start.residue
    /\ last_result.ok /\ last_result.value # EmptyValue

\* ------------------------------------------------------------------ C7
\* C7: run calls verify(program, inputs_.size()) first. When verify fails, run
\* returns its error and the stack, the call frames, the input slots and the profile
\* are unchanged, no trace event is emitted and no native adapter is invoked; when it
\* accepts, run enters run_unchecked.
C7_RunVerifiesFirst ==
    [][(phase = "host" /\ runs' = runs + 1 /\ entry' = "run") =>
          LET verdict == Verify(program, Len(inputs_), native_bindings_).err
          IN IF verdict # "none"
             THEN /\ phase' = "host"
                  /\ last_result' = Err(verdict)
                  /\ UNCHANGED <<stack_, call_frames_, inputs_, profile_stats_>>
                  /\ trace_events' = <<>>
                  /\ native_calls' = 0
             ELSE /\ phase' = "running"
                  /\ stack_' = <<>> /\ call_frames_' = <<>>
                  /\ pc' = 0 /\ executed_steps' = 0
                  /\ UNCHANGED <<inputs_, profile_stats_>>]_vars

\* run refused a program on a VM that an observed earlier run had left with values
\* on the stack and counts in the profile
C7_Witness ==
    /\ phase = "host" /\ entry = "run" /\ runs = 2
    /\ run_start.verdict # "none"
    /\ last_result = Err(run_start.verdict)
    /\ stack_ # <<>>
    /\ trace_sink_ /\ profiling_enabled_
    /\ profile_stats_.executed_steps > 0

\* ------------------------------------------------------------------ C8
PushInputPoint == Dispatching /\ Fetched = "push_input"

\* C8: push_input k with k below the number of slots pushes the value of slot k and
\* leaves slot k empty, the other slots and their number unchanged; no step and no
\* start of a run refills an empty slot; with k not below the number of slots the
\* run fails with invalid_input_index and the stack is unchanged.
C8_PushInput ==
    /\ [][PushInputPoint =>
            LET k == InstrAt(program, pc).operand
            IN IF k < Len(inputs_)
               THEN /\ phase' = "running"
                    /\ stack_' = Append(stack_, inputs_[k + 1])
                    /\ inputs_' = [inputs_ EXCEPT ![k + 1] = EmptyValue]
                    /\ pc' = pc + 1
               ELSE /\ phase' = "host"
                    /\ last_result' = Err("invalid_input_index")
                    /\ stack_' = stack_
                    /\ inputs_' = inputs_]_vars
    /\ [][(phase' = "running") =>
            /\ Len(inputs_') = Len(inputs_)
            /\ \A i \in DOMAIN inputs_ :
                  inputs_[i] = EmptyValue => inputs_'[i] = EmptyValue]_vars

\* a later run, started without pushing inputs again, has just read a slot that the
\* run before had emptied
C8_Witness ==
    /\ Running /\ runs = 2 /\ pc > 0
    /\ InstrAt(program, pc - 1).opcode = "push_input"
    /\ InstrAt(program, pc - 1).operand < Len(inputs_)
    /\ run_start.inputs[InstrAt(program, pc - 1).operand + 1] = EmptyValue
    /\ stack_ # <<>> /\ Back(stack_) = EmptyValue

\* ------------------------------------------------------------------ C9
\* call is about to be dispatched for a function the function table describes well
CallPoint ==
    /\ Dispatching /\ Fetched = "call"
    /\ InstrAt(program, pc).operand < Len(program.functions)
    /\ LET f == program.functions[InstrAt(program, pc).operand + 1]
       IN f.local_count >= f.arity /\ f.entry < CodeSize(program)

\* C9: call f with at least arity values on the stack keeps the stack below and the
\* arguments in place as locals 0..arity-1, adds empty slots for the other locals so
\* that the stack holds base + local_count values, pushes the one frame
\* {pc + 1, base, local_count} and moves to f.entry; with fewer values it fails with
\* stack_underflow and pushes no frame.
C9_Call ==
    [][CallPoint =>
          LET f == program.functions[InstrAt(program, pc).operand + 1]
              base == Len(stack_) - f.arity
          IN IF Len(stack_) >= f.arity
             THEN /\ phase' = "running"
                  /\ Len(stack_') = base + f.local_count
                  /\ SubSeq(stack_', 1, Len(stack_)) = stack_
                  /\ \A i \in f.arity .. (f.local_count - 1) :
                        stack_'[base + i + 1] = EmptyValue
                  /\ call_frames_' = Append(call_frames_,
                                            [return_pc |-> pc + 1, base |-> base,
                                             local_count |-> f.local_count])
                  /\ pc' = f.entry
             ELSE /\ phase' = "host"
                  /\ last_result' = Err("stack_underflow")
                  /\ call_frames_' = call_frames_]_vars

\* a call has just made a frame with an argument and a spare local above a value
\* of the caller
C9_Witness ==
    /\ Running /\ call_frames_ # <<>>
    /\ LET frame == Back(call_frames_)
       IN /\ pc \in {f.entry : f \in {program.functions[i] : i \in DOMAIN program.functions}}
          /\ frame.base > 0
          /\ frame.local_count > 1
          /\ Len(stack_) = frame.base + frame.local_count
          /\ stack_[frame.base + 1] # EmptyValue
          /\ Back(stack_) = EmptyValue

\* ------------------------------------------------------------------ C10
RetPoint == Dispatching /\ Fetched = "ret" /\ stack_ # <<>>

\* C10 as claimed: ret pops v; without a frame the run returns v; with a frame the
\* frame is popped, the stack is cut to frame.base, v is pushed and pc becomes
\* frame.return_pc.
C10_Ret ==
    [][RetPoint =>
          LET v == Back(stack_)
          IN IF call_frames_ = <<>>
             THEN phase' = "host" /\ last_result' = Ok(v)
             ELSE LET frame == Back(call_frames_)
                  IN /\ phase' = "running"
                     /\ call_frames_' = PopBack(call_frames_)
                     /\ Len(stack_') = frame.base + 1
                     /\ stack_' = Append(SubSeq(stack_, 1, frame.base), v)
                     /\ pc' = frame.return_pc]_vars

\* C10 amended: as claimed when the frame's base is within the stack that the pop
\* of v leaves; when it is beyond, the frame is popped all the same and the run
\* fails with missing_call_frame.
C10_RetChecked ==
    [][RetPoint =>
          LET v == Back(stack_)
          IN IF call_frames_ = <<>>
             THEN phase' = "host" /\ last_result' = Ok(v)
             ELSE LET frame == Back(call_frames_)
                  IN /\ call_frames_' = PopBack(call_frames_)
                     /\ IF frame.base <= Len(stack_) - 1
                        THEN /\ phase' = "running"
                             /\ Len(stack_') = frame.base + 1
                             /\ stack_' = Append(SubSeq(stack_, 1, frame.base), v)
                             /\ pc' = frame.return_pc
                        ELSE /\ phase' = "host"
                             /\ last_result' = Err("missing_call_frame")
                             /\ stack_' = PopBack(stack_)]_vars

\* a ret has failed because the function had consumed a value of its caller
C10_Witness ==
    /\ phase = "host" /\ runs > 0
    /\ last_result = Err("missing_call_frame")
    /\ program = ReturnsCallersValueProgram
    /\ stack_ = <<>> /\ call_frames_ = <<>>

\* ------------------------------------------------------------------ C11
LocalPoint ==
    /\ Dispatching /\ Fetched \in {"load_local", "store_local"}
    /\ (Fetched = "store_local" => stack_ # <<>>)

SameContent(a, b) == a.kind = b.kind /\ a.v = b.v

\* what load_local i and store_local i do to a stack whose slot base + i exists
LocalAccess(i) ==
    LET slot == Back(call_frames_).base + i + 1
    IN /\ phase' = "running"
       /\ pc' = pc + 1
       /\ call_frames_' = call_frames_
       /\ IF Fetched = "load_local"
          THEN /\ PopBack(stack_') = stack_
               /\ SameContent(Back(stack_'), stack_[slot])
          ELSE stack_' = [PopBack(stack_) EXCEPT ![slot] = Back(stack_)]

LocalFailure(kind) == phase' = "host" /\ last_result' = Err(kind)

\* C11 as claimed: load_local i and store_local i fail with missing_call_frame when
\* there is no frame and with invalid_local_index when i >= local_count of the top
\* frame; otherwise load_local pushes a copy of stack[base + i] and leaves the local
\* as it was, store_local pops the top and writes it to stack[base + i] and leaves
\* every other slot as it was.
C11_Locals ==
    [][LocalPoint =>
          LET i == InstrAt(program, pc).operand
          IN IF call_frames_ = <<>> THEN LocalFailure("missing_call_frame")
             ELSE IF i >= Back(call_frames_).local_count
             THEN LocalFailure("invalid_local_index")
             ELSE LocalAccess(i)]_vars

\* the slots that remain for the access: store_local has popped its value first
SlotsLeft == IF Fetched = "store_local" THEN Len(stack_) - 1 ELSE Len(stack_)

\* C11 amended: as claimed when slot base + i is still on the stack (for store_local:
\* on the stack that the pop leaves); when the function has popped the slot away the
\* access fails with invalid_local_index too, store_local having popped its value.
C11_LocalsChecked ==
    [][LocalPoint =>
          LET i == InstrAt(program, pc).operand
          IN IF call_frames_ = <<>> THEN LocalFailure("missing_call_frame") /\ stack_' = stack_
             ELSE IF i >= Back(call_frames_).local_count
             THEN LocalFailure("invalid_local_index") /\ stack_' = stack_
             ELSE IF Back(call_frames_).base + i >= SlotsLeft
             THEN /\ LocalFailure("invalid_local_index")
                  /\ stack_' = IF Fetched = "store_local" THEN PopBack(stack_) ELSE stack_
             ELSE LocalAccess(i)]_vars

\* a store_local has just written a computed value into a local below the top of
\* the stack, in a frame that holds an argument as well
C11_Witness ==
    /\ Running /\ pc > 0 /\ call_frames_ # <<>>
    /\ InstrAt(program, pc - 1).opcode = "store_local"
    /\ LET frame == Back(call_frames_)
           slot == frame.base + InstrAt(program, pc - 1).operand + 1
       IN /\ InstrAt(program, pc - 1).operand > 0
          /\ slot <= Len(stack_)
          /\ stack_[slot] # EmptyValue
          /\ Len(stack_) = frame.base + frame.local_count

\* ------------------------------------------------------------------ C12
\* call_native b is dispatched and binding b holds an adapter
NativePoint ==
    /\ Dispatching /\ Fetched = "call_native"
    /\ InstrAt(program, pc).operand < Len(native_bindings_)
    /\ native_bindings_[InstrAt(program, pc).operand + 1].function # NullFunction

\* C12: call_native b, binding b having arity a: with at least a values on the stack
\* the adapter is invoked exactly once; its arguments are the top a slots in push
\* order (first returns args[0], the deepest of them) and are still on the stack
\* while it runs (depth sees the whole stack); when it succeeds the stack holds
\* what was below the arguments and the returned value on top, size - a + 1 values
\* in all. With fewer than a values the adapter is not invoked and the run fails
\* with insufficient_native_arguments.
C12_CallNative ==
    [][NativePoint /\ native_bindings_[InstrAt(program, pc).operand + 1].function # "reenter" =>
          LET binding == native_bindings_[InstrAt(program, pc).operand + 1]
              a == binding.arity
              below == Len(stack_) - a
          IN IF Len(stack_) >= a
             THEN /\ native_calls' = native_calls + 1
                  /\ (binding.function \in {"first", "depth", "stack_size"} =>
                        phase' = "running")
                  /\ (phase' = "running" =>
                        /\ Len(stack_') = Len(stack_) - a + 1
                        /\ SubSeq(stack_', 1, below) = SubSeq(stack_, 1, below)
                        /\ pc' = pc + 1
                        /\ (binding.function = "first" => Back(stack_') = stack_[below + 1])
                        /\ (binding.function \in {"depth", "stack_size"} =>
                              Back(stack_') = I64(Len(stack_)))
                        /\ (binding.function = "sum2" =>
                              Back(stack_') = I64(WrapI64(stack_[below + 1].v
                                                          + stack_[below + 2].v))))
             ELSE /\ native_calls' = native_calls
                  /\ phase' = "host"
                  /\ last_result' = Err("insufficient_native_arguments")
                  /\ stack_' = stack_]_vars

\* first has just returned the deeper of its two arguments, which differ, in place
\* of both
C12_Witness ==
    /\ Running /\ program = NativeProbeProgram /\ pc = 3
    /\ native_calls = 1
    /\ stack_ = <<I64(1)>>

\* ------------------------------------------------------------------ C13
\* call_native is dispatched on an adapter that runs the VM it is called from
ReentryPoint ==
    /\ NativePoint
    /\ native_bindings_[InstrAt(program, pc).operand + 1].function = "reenter"

\* C13: when an adapter calls run_unchecked on the VM that is running it, the inner
\* call fails with native_reentrancy, which the adapter hands on, and the stack and
\* the frames of the outer run are as they were.
C13_NativeReentrancy ==
    [][ReentryPoint =>
          /\ phase' = "host"
          /\ last_result' = Err("native_reentrancy")
          /\ stack_' = stack_
          /\ call_frames_' = call_frames_]_vars

\* ------------------------------------------------------------------ C14
HaltPoint == Dispatching /\ Fetched = "halt"
EndPoint == Running /\ pc >= CodeSize(program)

\* what a halt returns from the present stack
HaltValue == IF stack_ = <<>> THEN EmptyValue ELSE Back(stack_)

\* C14: halt ends the run and returns the top of the stack, or the empty Value when
\* the stack is empty; a run whose pc leaves the code returns the very value that a
\* halt would return from the same stack.
C14_HaltAndEnd ==
    [][HaltPoint \/ EndPoint =>
          /\ phase' = "host"
          /\ last_result' = Ok(HaltValue)]_vars

\* a program with no instruction that ends a run
NoStop(p) == \A i \in 1..Len(p.code) : p.code[i].opcode \notin {"halt", "ret"}

\* a run has fallen off the end of the code and returned the value on top of a
\* stack of more than one value
C14_Witness ==
    /\ phase = "host" /\ runs > 0
    /\ NoStop(program)
    /\ last_result.ok /\ last_result.value # EmptyValue
    /\ stack_ # <<>>

\* ------------------------------------------------------------------ verify, visit by visit
MaxCode == 2

\* the instructions of the generated programs: operands in and out of range, targets
\* inside the code, at its end and beyond it
VerifyInstructions ==
    {Ins("push_constant", 0), Ins("push_constant", 1),
     Ins("push_input", 0), Ins("push_input", 1),
     Ins("add_i64", 0),
     Ins("jump", 0), Ins("jump", 1), Ins("jump", MaxCode), Ins("jump", MaxCode + 1),
     Ins("jump_if_true", 1), Ins("jump_if_true", MaxCode), Ins("jump_if_true", MaxCode + 1),
     Ins("dup", 0), Ins("pop", 0),
     Ins("call", 0), Ins("call", 2),
     Ins("ret", 0), Ins("load_local", 0), Ins("store_local", 0),
     Ins("call_native", 0), Ins("call_native", 1), Ins("call_native", 2),
     Ins("halt", 0), Ins(UnknownOpcode, 0)}

\* function tables: none, a good one, and tables whose first or second entry has an
\* entry beyond the code, fewer locals than arguments, or both
FunctionTables ==
    {<<>>, <<Fn(0, 1, 1)>>, <<Fn(0, 0, 0), Fn(MaxCode, 0, 0)>>, <<Fn(0, 2, 1)>>,
     <<Fn(MaxCode, 2, 1)>>, <<Fn(0, 2, 1), Fn(MaxCode, 0, 0)>>}

GeneratedPrograms ==
    {Prog(code, <<I64(1)>>, table) :
        code \in UNION {[1..n -> VerifyInstructions] : n \in 0..MaxCode},
        table \in FunctionTables}

\* a fallthrough into the end of the code at depth 1, then a jump to the end at depth 0
EndMergeProgram ==
    Prog(<<Ins("push_constant", 0), Ins("jump_if_true", 3), Ins("jump", 4),
           Ins("jump", 5), Ins("push_constant", 0)>>,
         <<I64(1)>>, <<>>)

\* a branch to the end of the code
BranchToEndProgram ==
    Prog(<<Ins("push_constant", 0), Ins("jump_if_true", 3), Ins("push_constant", 0)>>,
         <<I64(1)>>, <<>>)

\* a function table with an entry on an empty program
EmptyWithFunctionProgram == Prog(<<>>, <<>>, <<Fn(0, 0, 0)>>)

VerifyPrograms ==
    GeneratedPrograms \cup PlainPrograms
    \cup {NativeProgram, NativeOneArgumentProgram, SecondNativeProgram, NativeProbeProgram,
          EndMergeProgram, BranchToEndProgram, EmptyWithFunctionProgram}

\* verify is applied to a program on a VM with one input slot and two bindings, the
\* second of them empty
InitVerify ==
    /\ program \in VerifyPrograms
    /\ to_bind = <<>>
    /\ build = CHOOSE b \in Builds : TRUE
    /\ stack_ = <<>>
    /\ call_frames_ = <<>>
    /\ inputs_ = <<I64(1)>>
    /\ native_bindings_ = <<Sum2, EmptyBinding>>
    /\ step_budget_ = 0
    /\ trace_sink_ = FALSE
    /\ profiling_enabled_ = FALSE
    /\ profile_stats_ = FreshProfile
    /\ pc = 0
    /\ executed_steps = 0
    /\ phase = "host"
    /\ entry = "none"
    /\ last_result = NoResult
    /\ runs = 0
    /\ run_start = NotStarted
    /\ trace_events = <<>>
    /\ native_calls = 0
    /\ heap_next = 1
    /\ traversal = NotVerifying
    /\ BesideInit

\* verify changes nothing of the VM
VMVars == <<program, build, to_bind, stack_, call_frames_, inputs_, native_bindings_,
            step_budget_, trace_sink_, profiling_enabled_, profile_stats_, pc,
            executed_steps, phase, entry, last_result, runs, run_start, trace_events,
            native_calls, heap_next, Beside>>

Outcome_of(st) ==
    [status |-> IF st.err # "none" THEN "rejected" ELSE "traversing", st |-> st]

\* verify is called: the checks before the loop, and the entry at pc 0, depth 0
VerifyEnter ==
    /\ traversal.status = "idle"
    /\ traversal' = Outcome_of(VerifyPreamble(program))
    /\ UNCHANGED VMVars

\* one iteration of while (!worklist.empty())
VerifyStep ==
    /\ traversal.status = "traversing"
    /\ traversal.st.worklist # <<>>
    /\ traversal' = Outcome_of(VerifyVisit(traversal.st, program, Len(inputs_),
                                           native_bindings_))
    /\ UNCHANGED VMVars

\* the worklist is empty: verify returns success
VerifyAccept ==
    /\ traversal.status = "traversing"
    /\ traversal.st.worklist = <<>>
    /\ traversal' = [traversal EXCEPT !.status = "accepted"]
    /\ UNCHANGED VMVars

NextVerify == VerifyEnter \/ VerifyStep \/ VerifyAccept
SpecVerify == InitVerify /\ [][NextVerify]_vars

\* verify has returned err
Rejected(err) == traversal'.status = "rejected" /\ traversal'.st.err = err

\* the instruction under visit, its PC and its recorded entry depth
VisitPoint == traversal.status = "traversing" /\ traversal.st.worklist # <<>>
VisitedPc == Back(traversal.st.worklist)
Visited == InstrAt(program, VisitedPc)
EntryDepth == traversal.st.depths[VisitedPc + 1]

\* the depth recorded for a successor: for the end of the code, stack_depth_at_end
RecordedAt(st, at) == IF at = CodeSize(program) THEN st.end_depth ELSE st.depths[at + 1]

\* the operand rule that the instruction breaks, "none" when it breaks none
OperandError(ins) ==
    CASE ins.opcode = "push_constant" /\ ins.operand >= Len(program.constants) ->
           "invalid_constant_index"
      [] ins.opcode = "push_input" /\ ins.operand >= Len(inputs_) -> "invalid_input_index"
      [] ins.opcode = "call_native" /\ ins.operand >= Len(native_bindings_) ->
           "invalid_native_index"
      [] ins.opcode = "call_native" /\ ins.operand < Len(native_bindings_)
           /\ native_bindings_[ins.operand + 1].function = NullFunction ->
           "empty_native_binding"
      [] ins.opcode = "call" /\ ins.operand >= Len(program.functions) ->
           "invalid_function_index"
      [] ins.opcode \notin OpCodes -> "unknown_opcode"
      [] OTHER -> "none"

\* the values an instruction with a valid operand pops and pushes
StackPops(ins) ==
    CASE ins.opcode \in BinaryOpcodes -> 2
      [] ins.opcode \in {"jump_if_true", "pop", "ret", "store_local"} -> 1
      [] ins.opcode = "call" -> program.functions[ins.operand + 1].arity
      [] ins.opcode = "call_native" -> native_bindings_[ins.operand + 1].arity
      [] OTHER -> 0

StackPushes(ins) ==
    IF ins.opcode \in BinaryOpcodes
                      \cup {"push_constant", "push_input", "call_native", "call", "dup",
                            "load_local"}
    THEN 1 ELSE 0

\* the PCs that the instruction at `at` hands its depth to
Successors(ins, at) ==
    (IF ins.opcode \in {"jump", "jump_if_true"} THEN {ins.operand} ELSE {})
    \cup (IF ins.opcode \in {"jump", "ret", "halt"} THEN {} ELSE {at + 1})

Underflows(ins, depth) ==
    depth < StackPops(ins) \/ (ins.opcode = "dup" /\ depth = 0)

\* the visit gets as far as the successors
ReachesSuccessors ==
    /\ VisitPoint
    /\ OperandError(Visited) = "none"
    /\ ~Underflows(Visited, EntryDepth)

NextDepth == EntryDepth - StackPops(Visited) + StackPushes(Visited)

\* ------------------------------------------------------------------ C15
\* every edge out of a visited instruction agrees with the depth recorded where it
\* arrives
Consistent(st) ==
    \A at \in 0..(CodeSize(program) - 1) :
       st.depths[at + 1] # None =>
          \A to \in Successors(InstrAt(program, at), at) :
             /\ to <= CodeSize(program)
             /\ RecordedAt(st, to) = st.depths[at + 1] - StackPops(InstrAt(program, at))
                                       + StackPushes(InstrAt(program, at))

\* C15: when an edge of the visited instruction, fallthrough or explicit jump,
\* arrives at a PC or at the end of the code (PC = code size) where another edge
\* has recorded a different depth, verify fails with verification_failed; and
\* verify accepts only when every edge out of every reachable PC agrees with the one
\* depth recorded where it arrives.
C15_MergeDepths ==
    /\ [][ReachesSuccessors
            /\ (\A to \in Successors(Visited, VisitedPc) : to <= CodeSize(program))
            /\ (\E to \in Successors(Visited, VisitedPc) :
                   RecordedAt(traversal.st, to) \notin {None, NextDepth})
            => Rejected("verification_failed")]_vars
    /\ [](traversal.status = "accepted" => Consistent(traversal.st))

\* ------------------------------------------------------------------ C16
JumpBeyond ==
    /\ VisitPoint
    /\ Visited.opcode \in {"jump", "jump_if_true"}
    /\ Visited.operand > CodeSize(program)

\* C16 as claimed: a visited jump or jump_if_true whose operand is greater than the
\* code size makes verify fail with invalid_jump_target.
C16_JumpTarget == [][JumpBeyond => Rejected("invalid_jump_target")]_vars

\* C16 amended: so it is for jump, and for jump_if_true entered at depth 1 or more;
\* a jump_if_true entered at depth 0 fails with stack_underflow, whatever its target.
C16_JumpTargetAfterDepth ==
    [][JumpBeyond =>
          IF Visited.opcode = "jump_if_true" /\ EntryDepth = 0
          THEN Rejected("stack_underflow")
          ELSE Rejected("invalid_jump_target")]_vars

\* verify has refused a jump_if_true for its target, beyond the code, after finding
\* a value for it to pop
C16_Witness ==
    /\ traversal.status = "rejected"
    /\ traversal.st.err = "invalid_jump_target"
    /\ \E at \in 0..(CodeSize(program) - 1) :
          /\ InstrAt(program, at).opcode = "jump_if_true"
          /\ InstrAt(program, at).operand > CodeSize(program)
          /\ traversal.st.depths[at + 1] # None
          /\ traversal.st.depths[at + 1] >= 1
          /\ \A other \in 0..(CodeSize(program) - 1) :
                other # at => InstrAt(program, other).opcode \notin {"jump", "jump_if_true"}

\* ------------------------------------------------------------------ C17
\* C17: of the successors of a visited instruction, explicit target and fallthrough
\* alike, one that equals the code size is the implicit end of the program and is
\* no invalid_jump_target: the depth is recorded for the end when the traversal goes
\* on; only one that is greater than the code size is an invalid_jump_target.
C17_ImplicitEnd ==
    [][ReachesSuccessors =>
          \A to \in Successors(Visited, VisitedPc) :
             /\ (to > CodeSize(program) => Rejected("invalid_jump_target"))
             /\ (to = CodeSize(program) =>
                   /\ ~Rejected("invalid_jump_target")
                   /\ (traversal'.status = "traversing" =>
                         traversal'.st.end_depth = NextDepth))]_vars

\* ------------------------------------------------------------------ C18
EnterPoint == traversal.status = "idle"

\* the functions before the i-th pass both checks
GoodBefore(i) ==
    \A j \in 1..(i - 1) :
       /\ program.functions[j].entry < CodeSize(program)
       /\ program.functions[j].local_count >= program.functions[j].arity

\* the checks of the function table, entry by entry, the entry before the signature
TableChecked ==
    \A i \in 1..Len(program.functions) :
       GoodBefore(i) =>
          /\ (program.functions[i].entry >= CodeSize(program) =>
                Rejected("invalid_function_index"))
          /\ (/\ program.functions[i].entry < CodeSize(program)
              /\ program.functions[i].local_count < program.functions[i].arity
              => Rejected("invalid_function_signature"))

\* once past the checks every function has its entry in the code and room for its
\* arguments
TableGood ==
    traversal.status \in {"traversing", "accepted"} =>
       \A i \in 1..Len(program.functions) :
          /\ program.functions[i].entry < CodeSize(program)
          /\ program.functions[i].local_count >= program.functions[i].arity

\* C18 as claimed: before it visits any instruction verify checks every entry of
\* the function table, called or not: entry >= code size fails with
\* invalid_function_index, local_count < arity with invalid_function_signature; so
\* every function of an accepted program has entry < code size and
\* local_count >= arity.
C18_FunctionTable == [][EnterPoint => TableChecked]_vars /\ []TableGood

\* C18 amended: so it is for a program with at least one instruction; a program
\* with none fails with verification_failed, whatever its function table holds.
C18_FunctionTableOfCode ==
    /\ [][EnterPoint =>
            IF program.code = <<>> THEN Rejected("verification_failed")
            ELSE TableChecked]_vars
    /\ []TableGood

\* verify has refused a program for the signature of its first function, called
\* nowhere, before the entry of its second
C18_Witness ==
    /\ traversal.status = "rejected"
    /\ traversal.st.err = "invalid_function_signature"
    /\ traversal.st.worklist = <<>>
    /\ program.code # <<>>
    /\ Len(program.functions) = 2
    /\ program.functions[2].entry >= CodeSize(program)
    /\ \A at \in 0..(CodeSize(program) - 1) : InstrAt(program, at).opcode # "call"

\* ------------------------------------------------------------------ C19
\* C19: a visited instruction whose entry depth is smaller than what it pops (2 for
\* the binary opcodes, 1 for jump_if_true, pop, ret and store_local, the arity for
\* call and call_native), and a dup entered at depth 0, make verify fail with
\* stack_underflow; otherwise it does not, and the depth recorded for every
\* successor when the traversal goes on is entry depth - pops + pushes.
C19_StackDepth ==
    [][VisitPoint /\ OperandError(Visited) = "none" =>
          IF Underflows(Visited, EntryDepth)
          THEN Rejected("stack_underflow")
          ELSE /\ ~Rejected("stack_underflow")
               /\ (traversal'.status = "traversing" =>
                     \A to \in Successors(Visited, VisitedPc) :
                        RecordedAt(traversal'.st, to) = NextDepth)]_vars

\* verify has refused a call_native that found one value where its binding takes two
C19_Witness ==
    /\ traversal.status = "rejected"
    /\ traversal.st.err = "stack_underflow"
    /\ \E at \in 0..(CodeSize(program) - 1) :
          /\ InstrAt(program, at).opcode = "call_native"
          /\ InstrAt(program, at).operand = 0
          /\ traversal.st.depths[at + 1] = 1
          /\ \A other \in 0..(CodeSize(program) - 1) :
                other # at => InstrAt(program, other).opcode = "push_constant"

\* ------------------------------------------------------------------ C20
\* C20: a visited push_constant whose operand is not below the number of constants
\* fails with invalid_constant_index, a push_input whose operand is not below
\* available_inputs with invalid_input_index, a call_native whose operand is not
\* below the number of bindings with invalid_native_index and one whose binding is
\* empty with empty_native_binding, a call whose operand is not below the number of
\* functions with invalid_function_index, an opcode outside the defined set with
\* unknown_opcode.
C20_OperandChecks ==
    [][VisitPoint /\ OperandError(Visited) # "none" =>
          Rejected(OperandError(Visited))]_vars

\* verify has refused a call_native of the empty binding, reached with nothing on
\* the stack
C20_Witness ==
    /\ traversal.status = "rejected"
    /\ traversal.st.err = "empty_native_binding"
    /\ \E at \in 0..(CodeSize(program) - 1) :
          /\ InstrAt(program, at) = Ins("call_native", 1)
          /\ traversal.st.depths[at + 1] = 0

\* ================================================================== Arena
\* objects emplaced over the life of one arena
MaxObjects == 3
\* Marker objects the host creates, by mark() or by move construction
MaxMarkers == 2

\* Arena::register_destructor: the object is tracked, alive
register_destructor_dead(a, object) ==
    [a EXCEPT !.tracked = Append(@, [object |-> object, alive |-> FALSE])]
register_destructor(a, object) ==
    [a EXCEPT !.tracked = Append(@, [object |-> object, alive |-> TRUE])]

\* Arena::emplace<T>: constructs the object and registers its destructor;
\* objects are numbered in the order of their registration
ArenaEmplace(a) ==
    [register_destructor(a, a.emplaced + 1) EXCEPT !.emplaced = @ + 1]

\* the loop of Arena::rewind: from the back down to index, an alive object is
\* destroyed (its destructor is logged) and marked dead
RECURSIVE RewindLoop(_, _, _)
RewindLoop(a, i, index) ==
    IF i > index
    THEN RewindLoop(IF a.tracked[i].alive
                    THEN [a EXCEPT !.tracked[i].alive = FALSE,
                                   !.destroyed = Append(@, a.tracked[i].object)]
                    ELSE a,
                    i - 1, index)
    ELSE a

\* Arena::rewind: the index is clamped, the loop runs, the list is resized
ArenaRewind_to_zero(a, index) ==
    [RewindLoop(a, Len(a.tracked), 0) EXCEPT !.tracked = <<>>]
ArenaRewind(a, index) ==
    LET clamped == IF index > Len(a.tracked) THEN Len(a.tracked) ELSE index
    IN  [RewindLoop(a, Len(a.tracked), clamped) EXCEPT
            !.tracked = SubSeq(@, 1, clamped)]

ArenaReset_to_one(a) == ArenaRewind(a, 1)
\* Arena::reset
ArenaReset(a) == ArenaRewind(a, 0)

\* Arena::live_allocations
live_allocations(a) ==
    Cardinality({i \in 1..Len(a.tracked) : a.tracked[i].alive})

\* Arena::mark: a Marker on this arena at the current length of the tracking
\* list.  Bookkeeping, not state of the program: born and ended, how many
\* objects had been emplaced when the mark was taken and when the Marker's
\* destructor rewound; cancelled, the Marker was released or moved from.  born
\* and cancelled travel with the mark when the Marker is moved
ArenaMark(a) ==
    [a EXCEPT !.markers = Append(@, [live |-> TRUE, arena_ |-> TRUE,
                                     rewind_to_ |-> Len(a.tracked),
                                     born |-> a.emplaced, ended |-> -1,
                                     cancelled |-> FALSE])]

\* Marker::~Marker
MarkerDestroy(a, k) ==
    LET m == a.markers[k]
        rewound == IF m.arena_ THEN ArenaRewind(a, m.rewind_to_) ELSE a
    IN  [rewound EXCEPT !.markers[k].live = FALSE,
                        !.markers[k].ended = IF m.arena_ THEN a.emplaced ELSE -1]

\* Marker::release
MarkerRelease_keeps_arena(a, k) == [a EXCEPT !.markers[k].cancelled = TRUE]
MarkerRelease(a, k) ==
    [a EXCEPT !.markers[k].arena_ = FALSE, !.markers[k].cancelled = TRUE]

\* Marker::Marker(Marker&&): the new Marker takes the mark, the source is left
\* without an arena and with rewind_to_ 0
MarkerMove(a, k) ==
    [a EXCEPT !.markers = Append([@ EXCEPT ![k].arena_ = FALSE,
                                           ![k].rewind_to_ = 0,
                                           ![k].cancelled = TRUE],
                                 [a.markers[k] EXCEPT !.live = TRUE])]

\* Marker::operator=(Marker&&): nothing on self-assignment; else the target
\* first rewinds to its own mark if it has one, then takes the source's
MarkerMoveAssign(a, t, s) ==
    IF t = s THEN a
    ELSE LET rewound == IF a.markers[t].arena_
                        THEN ArenaRewind(a, a.markers[t].rewind_to_) ELSE a
         IN  [rewound EXCEPT !.markers[t].arena_ = a.markers[s].arena_,
                             !.markers[t].rewind_to_ = a.markers[s].rewind_to_,
                             !.markers[t].born = a.markers[s].born,
                             !.markers[t].cancelled = a.markers[s].cancelled,
                             !.markers[s].cancelled = TRUE,
                             !.markers[s].arena_ = FALSE,
                             !.markers[s].rewind_to_ = 0]

\* ------------------------------------------------------------------ the host of an arena
Markers == 1..Len(arena.markers)
Armed(k) == arena.markers[k].live /\ arena.markers[k].arena_
\* no armed Marker holds a mark taken later: rewinds stay nested
Innermost(k) ==
    \A j \in Markers : Armed(j) => arena.markers[j].born <= arena.markers[k].born

Emplace ==
    /\ arena.emplaced < MaxObjects
    /\ arena' = ArenaEmplace(arena)
    /\ UNCHANGED <<TheVM, codec, held>>

Mark ==
    /\ Len(arena.markers) < MaxMarkers
    /\ arena' = ArenaMark(arena)
    /\ UNCHANGED <<TheVM, codec, held>>

DestroyMarker ==
    \E k \in Markers :
        /\ arena.markers[k].live
        /\ arena.markers[k].arena_ => Innermost(k)
        /\ arena' = MarkerDestroy(arena, k)
        /\ UNCHANGED <<TheVM, codec, held>>

ReleaseMarker ==
    \E k \in Markers :
        /\ arena.markers[k].live
        /\ arena' = MarkerRelease(arena, k)
        /\ UNCHANGED <<TheVM, codec, held>>

MoveMarker ==
    \E k \in Markers :
        /\ arena.markers[k].live
        /\ Len(arena.markers) < MaxMarkers
        /\ arena' = MarkerMove(arena, k)
        /\ UNCHANGED <<TheVM, codec, held>>

MoveAssignMarker ==
    \E t \in Markers, s \in Markers :
        /\ arena.markers[t].live
        /\ arena.markers[s].live
        /\ (t # s /\ arena.markers[t].arena_) => Innermost(t)
        /\ arena' = MarkerMoveAssign(arena, t, s)
        /\ UNCHANGED <<TheVM, codec, held>>

Reset ==
    /\ \A k \in Markers : ~Armed(k)
    /\ arena' = ArenaReset(arena)
    /\ UNCHANGED <<TheVM, codec, held>>

InitArena == InitWith({[program |-> EmptyProgram, bindings |-> <<>>]})
NextArena ==
    Emplace \/ Mark \/ DestroyMarker \/ ReleaseMarker \/ MoveMarker
        \/ MoveAssignMarker \/ Reset
SpecArena == InitArena /\ [][NextArena]_vars

\* ------------------------------------------------------------------ what a step of the arena did
\* the destructors the step ran, in the order it ran them
Ran == SubSeq(arena'.destroyed, Len(arena.destroyed) + 1, Len(arena'.destroyed))
\* the objects registered after `since` objects had been, not yet destroyed
Pending(since) ==
    {o \in (since + 1)..arena.emplaced :
        \A i \in 1..Len(arena.destroyed) : arena.destroyed[i] # o}
\* seq holds exactly the objects of S, latest registration first
LatestFirst(seq, S) ==
    /\ Len(seq) = Cardinality(S)
    /\ \A i \in 1..Len(seq) : seq[i] \in S
    /\ \A i \in 1..Len(seq), j \in 1..Len(seq) : i < j => seq[i] > seq[j]
\* the step is the destruction of Marker k
Destroys(k) == arena.markers[k].live /\ ~arena'.markers[k].live
\* Marker j is gone, its destructor rewound, and nothing was emplaced since
JustRewound(j) ==
    /\ ~arena.markers[j].live
    /\ arena.markers[j].ended = arena.emplaced

\* C21: the destruction of a Marker that still holds its mark runs the
\* destructor of every object registered after the mark was taken and not yet
\* destroyed, latest registration first, and cuts the tracking list to the
\* marked length; and when an inner Marker taken after it has just rewound,
\* every destructor run now is of an object registered between the two marks
C21_LifoRewind ==
    [][\A k \in Markers :
          (Destroys(k) /\ arena.markers[k].arena_) =>
              /\ LatestFirst(Ran, Pending(arena.markers[k].born))
              /\ Len(arena'.tracked) = arena.markers[k].rewind_to_
              /\ \A j \in Markers :
                    (JustRewound(j) /\ arena.markers[j].born >= arena.markers[k].born) =>
                        \A i \in 1..Len(Ran) :
                            /\ Ran[i] > arena.markers[k].born
                            /\ Ran[i] <= arena.markers[j].born]_vars

\* an outer and an inner Marker have both rewound, the inner one first: an
\* object registered after the inner mark was destroyed before one registered
\* between the two marks
C21_Witness ==
    \E k \in Markers, j \in Markers :
        /\ ~arena.markers[k].live /\ arena.markers[k].ended >= 0
        /\ ~arena.markers[j].live /\ arena.markers[j].ended >= 0
        /\ arena.markers[k].born < arena.markers[j].born
        /\ \E a \in 1..Len(arena.destroyed), b \in 1..Len(arena.destroyed) :
              /\ a < b
              /\ arena.destroyed[a] > arena.markers[j].born
              /\ arena.destroyed[b] > arena.markers[k].born
              /\ arena.destroyed[b] <= arena.markers[j].born

\* C22: the destruction of a Marker that was released or moved from runs no
\* destructor and leaves the tracking list and live_allocations as they were
C22_Cancelled ==
    [][\A k \in Markers :
          (Destroys(k) /\ arena.markers[k].cancelled) =>
              /\ arena'.destroyed = arena.destroyed
              /\ arena'.tracked = arena.tracked
              /\ live_allocations(arena') = live_allocations(arena)]_vars

\* a released or moved-from Marker is gone while an object registered after
\* its mark was taken is still tracked and alive
C22_Witness ==
    \E k \in Markers :
        /\ ~arena.markers[k].live
        /\ arena.markers[k].cancelled
        /\ \E i \in 1..Len(arena.tracked) :
              /\ arena.tracked[i].alive
              /\ arena.tracked[i].object > arena.markers[k].born

\* the step is a reset that had something to do: no Marker changed, nothing was
\* emplaced, the arena changed
Resets ==
    /\ arena'.markers = arena.markers
    /\ arena'.emplaced = arena.emplaced
    /\ arena' # arena
\* the step emplaces an object
Emplaces == arena'.emplaced = arena.emplaced + 1

\* C23: live_allocations is the number of objects emplaced whose destructor
\* has not been run; reset runs the destructors of all objects still tracked,
\* latest registration first, and leaves live_allocations at 0; an object
\* emplaced afterwards, as at any time, is tracked and counted
C23_LiveAllocations ==
    /\ [](live_allocations(arena) = arena.emplaced - Len(arena.destroyed))
    /\ [][/\ Resets =>
                /\ LatestFirst(Ran, Pending(0))
                /\ live_allocations(arena') = 0
          /\ Emplaces =>
                /\ live_allocations(arena') = live_allocations(arena) + 1
                /\ arena'.destroyed = arena.destroyed]_vars

\* no Marker was ever taken, so only reset can have destroyed: two objects
\* were destroyed by it, the later one first, and the arena holds a new one
C23_Witness ==
    /\ arena.markers = <<>>
    /\ arena.destroyed = <<2, 1>>
    /\ live_allocations(arena) = 1

\* ================================================================== bytecode codec
\* the magic number and the version the implementation chose
bytecode_magic == 1447842899
bytecode_version == 1

\* the enumerators of OpCode in their order: the byte of an opcode is its place
OpCodeOrder ==
    <<"push_constant", "push_input", "add_i64", "sub_i64", "mul_i64", "mod_i64",
      "cmp_eq_i64", "cmp_lt_i64", "and_i64", "or_i64", "xor_i64", "shl_i64", "shr_i64",
      "jump", "jump_if_true", "dup", "pop", "call", "ret", "load_local", "store_local",
      "call_native", "halt">>
\* static_cast<std::uint8_t>(opcode)
OpCodeByte(opcode) ==
    IF opcode \in OpCodes
    THEN (CHOOSE i \in 1..Len(OpCodeOrder) : OpCodeOrder[i] = opcode) - 1
    ELSE 255
\* static_cast<OpCode>(byte): any byte is taken, no enumerator is required
OpCodeOfByte(byte) ==
    IF byte < Len(OpCodeOrder) THEN OpCodeOrder[byte + 1] ELSE UnknownOpcode

ConstantTag == [empty |-> 0, i64 |-> 1, f64 |-> 2, string |-> 3, buffer |-> 4]

\* ------------------------------------------------------------------ ByteWriter
\* little-endian object representations, as memcpy lays them out
write_u8(n) == <<n>>
write_u16(n) == <<n % 256, n \div 256>>
write_u32(n) == <<n % 256, (n \div 256) % 256, (n \div 65536) % 256, n \div 16777216>>
\* two's complement in 8 bytes
write_i64(n) ==
    <<n % 256, (n \div 256) % 256, (n \div 65536) % 256, (n \div 16777216) % 256>>
        \o (IF n < 0 THEN <<255, 255, 255, 255>> ELSE <<0, 0, 0, 0>>)
\* a double is held as the 8 bytes of its representation
write_f64(x) == x
write_bytes(bytes) == bytes

RECURSIVE WriteAll(_, _)
\* the bytes Write(item) gives for every item, in order
WriteAll(Write(_), items) ==
    IF items = <<>> THEN <<>> ELSE Write(Head(items)) \o WriteAll(Write, Tail(items))

is_string(val) == val.kind \in {"borrowed_string", "owned_string"}

WriteInstruction_short_operand(ins) ==
    write_u8(OpCodeByte(ins.opcode)) \o write_u16(ins.operand)
WriteInstruction(ins) == write_u8(OpCodeByte(ins.opcode)) \o write_u32(ins.operand)
WriteConstant_tags_borrowed(constant) ==
    CASE constant.kind = "empty" -> write_u8(ConstantTag.empty)
      [] constant.kind = "i64" -> write_u8(ConstantTag.i64) \o write_i64(constant.v)
      [] constant.kind = "f64" -> write_u8(ConstantTag.f64) \o write_f64(constant.v)
      [] constant.kind = "owned_string" ->
            write_u8(ConstantTag.string) \o write_u32(Len(constant.v))
                \o write_bytes(constant.v)
      [] constant.kind = "borrowed_string" ->
            write_u8(5) \o write_u32(Len(constant.v)) \o write_bytes(constant.v)
      [] is_buffer(constant) ->
            write_u8(ConstantTag.buffer) \o write_u32(Len(constant.v))
                \o write_bytes(constant.v)
WriteConstant(constant) ==
    CASE constant.kind = "empty" -> write_u8(ConstantTag.empty)
      [] constant.kind = "i64" -> write_u8(ConstantTag.i64) \o write_i64(constant.v)
      [] constant.kind = "f64" -> write_u8(ConstantTag.f64) \o write_f64(constant.v)
      [] is_string(constant) ->
            write_u8(ConstantTag.string) \o write_u32(Len(constant.v))
                \o write_bytes(constant.v)
      [] is_buffer(constant) ->
            write_u8(ConstantTag.buffer) \o write_u32(Len(constant.v))
                \o write_bytes(constant.v)
WriteFunction(function) ==
    write_u32(function.entry) \o write_u32(function.arity)
        \o write_u32(function.local_count)

\* the header serialize_program writes
Header(magic, version, reserved, instruction_count, constant_count, function_count) ==
    write_u32(magic) \o write_u16(version) \o write_u16(reserved)
        \o write_u32(instruction_count) \o write_u32(constant_count)
        \o write_u32(function_count)

\* serialize_program; the size limits of the format are far beyond these programs
serialize_program(p) ==
    Header(bytecode_magic, bytecode_version, 0,
           Len(p.code), Len(p.constants), Len(p.functions))
        \o WriteAll(WriteInstruction, p.code)
        \o WriteAll(WriteConstant, p.constants)
        \o WriteAll(WriteFunction, p.functions)

\* ------------------------------------------------------------------ ByteReader
ByteReader(bytes) == [bytes |-> bytes, offset_ |-> 0]
remaining(r) == Len(r.bytes) - r.offset_

\* the number a little-endian unsigned field of up to four bytes holds; a field
\* of 2^31 or more is kept as 2^31 - 1: it is only ever compared with the
\* handful of bytes that remain
RECURSIVE LittleEndian(_)
LittleEndian(field) ==
    IF field = <<>> THEN 0
    ELSE IF Len(field) = 4 /\ field[4] >= 128 THEN 2147483647
    ELSE Head(field) + 256 * LittleEndian(Tail(field))

\* the std::int64_t eight bytes hold: by its number when it fits in four bytes,
\* else by the bytes themselves
SignedOf(field) ==
    IF SubSeq(field, 5, 8) = <<0, 0, 0, 0>> /\ field[4] < 128
    THEN LittleEndian(SubSeq(field, 1, 4))
    ELSE IF SubSeq(field, 5, 8) = <<255, 255, 255, 255>> /\ field[4] >= 128
    THEN (field[1] - 255) + 256 * (field[2] - 255) + 65536 * (field[3] - 255)
            + 16777216 * (field[4] - 255) - 1
    ELSE field

\* ByteReader::read_raw and read_bytes: nothing is read and the offset stays
\* when fewer than `size` bytes remain
read_raw(r, size) ==
    IF remaining(r) < size
    THEN [ok |-> FALSE, field |-> <<>>, r |-> r]
    ELSE [ok |-> TRUE,
          field |-> SubSeq(r.bytes, r.offset_ + 1, r.offset_ + size),
          r |-> [r EXCEPT !.offset_ = @ + size]]

\* ------------------------------------------------------------------ deserialize_program
Failed(err, r) ==
    [outcome |-> "error", err |-> err, program |-> Prog(<<>>, <<>>, <<>>),
     offset_ |-> r.offset_, heap |-> 0]
Decoded(p, r, heap) ==
    [outcome |-> "program", err |-> "none", program |-> p, offset_ |-> r.offset_,
     heap |-> heap]
\* std::bad_alloc or std::length_error leaves the function
Thrown(r) ==
    [outcome |-> "exception", err |-> "none", program |-> Prog(<<>>, <<>>, <<>>),
     offset_ |-> r.offset_, heap |-> 0]

\* the function table, the check for trailing bytes and the return
RECURSIVE ReadFunctions(_, _, _, _)
ReadFunctions(r, left, p, heap) ==
    IF left = 0
    THEN IF remaining(r) # 0 THEN Failed("malformed_bytecode", r) ELSE Decoded(p, r, heap)
    ELSE LET got == read_raw(r, 4)
             arity == read_raw(got.r, 4)
             local_count == read_raw(arity.r, 4)
         IN  IF ~got.ok THEN Failed("malformed_bytecode", got.r)
             ELSE IF ~arity.ok THEN Failed("malformed_bytecode", arity.r)
             ELSE IF ~local_count.ok THEN Failed("malformed_bytecode", local_count.r)
             ELSE ReadFunctions(local_count.r, left - 1,
                                [p EXCEPT !.functions =
                                    Append(@, Fn(LittleEndian(got.field),
                                                 LittleEndian(arity.field),
                                                 LittleEndian(local_count.field)))],
                                heap)

\* the constant table: a tag, then the payload the tag calls for
RECURSIVE ReadConstants(_, _, _, _, _)
ReadConstants(r, left, function_count, p, heap) ==
    IF left = 0 THEN ReadFunctions(r, function_count, p, heap)
    ELSE
    LET tag == read_raw(r, 1)
        fixed == read_raw(tag.r, 8)
        length == read_raw(tag.r, 4)
        payload == read_raw(length.r, LittleEndian(length.field))
        Push(val, rest, h) ==
            ReadConstants(rest, left - 1, function_count,
                          [p EXCEPT !.constants = Append(@, val)], h)
    IN  IF ~tag.ok THEN Failed("malformed_bytecode", tag.r)
        ELSE CASE tag.field[1] = ConstantTag.empty -> Push(EmptyValue, tag.r, heap)
               [] tag.field[1] = ConstantTag.i64 ->
                     IF ~fixed.ok THEN Failed("malformed_bytecode", fixed.r)
                     ELSE Push(I64(SignedOf(fixed.field)), fixed.r, heap)
               [] tag.field[1] = ConstantTag.f64 ->
                     IF ~fixed.ok THEN Failed("malformed_bytecode", fixed.r)
                     ELSE Push(F64(fixed.field), fixed.r, heap)
               [] tag.field[1] = ConstantTag.string ->
                     IF ~length.ok THEN Failed("malformed_bytecode", length.r)
                     ELSE IF ~payload.ok THEN Failed("malformed_bytecode", payload.r)
                     ELSE Push(OwnedString(payload.field), payload.r, heap)
               [] tag.field[1] = ConstantTag.buffer ->
                     IF ~length.ok THEN Failed("malformed_bytecode", length.r)
                     ELSE IF ~payload.ok THEN Failed("malformed_bytecode", payload.r)
                     ELSE IF payload.field = <<>>
                     THEN Push(OwnedBuffer(0, <<>>), payload.r, heap)
                     ELSE Push(OwnedBuffer(heap, payload.field), payload.r, heap + 1)
               [] OTHER -> Failed("malformed_bytecode", tag.r)

\* the instruction table
RECURSIVE ReadInstructions(_, _, _, _, _, _)
ReadInstructions(r, left, constant_count, function_count, p, heap) ==
    IF left = 0 THEN ReadConstants(r, constant_count, function_count, p, heap)
    ELSE LET opcode_raw == read_raw(r, 1)
             operand == read_raw(opcode_raw.r, 4)
         IN  IF ~opcode_raw.ok THEN Failed("malformed_bytecode", opcode_raw.r)
             ELSE IF ~operand.ok THEN Failed("malformed_bytecode", operand.r)
             ELSE ReadInstructions(operand.r, left - 1, constant_count, function_count,
                                   [p EXCEPT !.code =
                                       Append(@, Ins(OpCodeOfByte(opcode_raw.field[1]),
                                                     LittleEndian(operand.field)))],
                                   heap)

\* entries a std::vector is asked for that a machine short of memory cannot give
ScarceFrom == 1073741824
\* std::vector::reserve(count): with memory to spare it succeeds; a count of
\* 2^30 entries or more asks for gigabytes and throws where they are not to be had
ReserveThrows(count, memory) == memory = "scarce" /\ count >= ScarceFrom

\* magic != bytecode_magic
MagicMatches_in_low_byte(field) == field[1] = bytecode_magic % 256
MagicMatches(field) == LittleEndian(field) = bytecode_magic

\* deserialize_program: the whole header is read, then the magic and the version
\* are compared, then the three tables are reserved and read
deserialize_program(bytes, heap, memory) ==
    LET magic == read_raw(ByteReader(bytes), 4)
        version == read_raw(magic.r, 2)
        reserved == read_raw(version.r, 2)
        instruction_count == read_raw(reserved.r, 4)
        constant_count == read_raw(instruction_count.r, 4)
        function_count == read_raw(constant_count.r, 4)
    IN  IF ~(magic.ok /\ version.ok /\ reserved.ok /\ instruction_count.ok
                /\ constant_count.ok /\ function_count.ok)
        THEN Failed("malformed_bytecode",
                    IF ~magic.ok THEN magic.r ELSE IF ~version.ok THEN version.r
                    ELSE IF ~reserved.ok THEN reserved.r
                    ELSE IF ~instruction_count.ok THEN instruction_count.r
                    ELSE IF ~constant_count.ok THEN constant_count.r
                    ELSE function_count.r)
        ELSE IF ~MagicMatches(magic.field)
        THEN Failed("invalid_bytecode_magic", function_count.r)
        ELSE IF LittleEndian(version.field) # bytecode_version
        THEN Failed("unsupported_bytecode_version", function_count.r)
        ELSE IF \/ ReserveThrows(LittleEndian(instruction_count.field), memory)
                \/ ReserveThrows(LittleEndian(constant_count.field), memory)
                \/ ReserveThrows(LittleEndian(function_count.field), memory)
        THEN Thrown(function_count.r)
        ELSE ReadInstructions(function_count.r, LittleEndian(instruction_count.field),
                              LittleEndian(constant_count.field),
                              LittleEndian(function_count.field),
                              Prog(<<>>, <<>>, <<>>), heap)

\* ------------------------------------------------------------------ programs to encode
\* the double 3.5, by its bytes
ThreeAndAHalf == <<0, 0, 0, 0, 0, 0, 12, 64>>
\* the program of the round-trip test with i64 constants 3 and 2: a constant
\* of every kind but empty (the buffer allocated by the host, at 50), one
\* function; it halts with 6
RoundTripProgram ==
    Prog(<<Ins("push_constant", 0), Ins("call", 0), Ins("halt", 0),
           Ins("load_local", 0), Ins("push_constant", 1), Ins("mul_i64", 0),
           Ins("ret", 0)>>,
         <<I64(3), I64(2), F64(ThreeAndAHalf), BorrowedString(<<98, 111>>),
           OwnedString(<<111, 119>>), OwnedBuffer(50, <<1, 2, 3>>)>>,
         <<Fn(3, 1, 1)>>)
\* an empty constant, a negative one, an empty string and an empty buffer;
\* it halts with -2
SparseProgram ==
    Prog(<<Ins("push_constant", 1), Ins("halt", 0)>>,
         <<EmptyValue, I64(-2), OwnedString(<<>>), OwnedBuffer(0, <<>>)>>, <<>>)
\* it halts with a borrowed string
TextProgram ==
    Prog(<<Ins("push_constant", 0), Ins("halt", 0)>>, <<BorrowedString(<<104, 105>>)>>,
         <<>>)

CodecPrograms == {RoundTripProgram, SparseProgram, TextProgram, EmptyProgram}

\* ------------------------------------------------------------------ the host of the codec
\* bytes put in place of a byte of an encoding, or after its end
TamperBytes == {0, 5, 127}

\* the tables of one instruction, one string constant and one function
CraftedPayload ==
    WriteInstruction(Ins("halt", 0)) \o WriteConstant(OwnedString(<<104, 105>>))
        \o WriteFunction(Fn(0, 0, 0))
\* inputs that no serialize_program wrote: a header of chosen fields, then the
\* payload or a part of it, cut anywhere
CraftedInputs ==
    {SubSeq(Header(magic, version, 0, instruction_count, constant_count, function_count)
                \o CraftedPayload, 1, n) :
        magic \in {bytecode_magic, 0},
        version \in {bytecode_version, 0, 2},
        instruction_count \in {0, 1},
        constant_count \in {0, 1, ScarceFrom},
        function_count \in {0, 1},
        n \in 0..(20 + Len(CraftedPayload))}

\* everything of the VM but the program and the heap
LoadFrame ==
    UNCHANGED <<build, to_bind, stack_, call_frames_, inputs_, native_bindings_,
                step_budget_, trace_sink_, profiling_enabled_, profile_stats_, pc,
                executed_steps, phase, entry, last_result, runs, run_start,
                trace_events, native_calls, traversal, arena, held>>

\* VM::run_unchecked, from the call to its return; the host runs the program it
\* built and the one it got back from its own encoding, no other
RunWhole ==
    /\ codec.origin # "crafted" /\ codec.damage = "none"
    /\ BeginCall("run_unchecked")
    /\ \E returned \in {RunFor(EnterRun(AtCall), step_budget_, MaxSteps)} :
          Install(returned)

\* the host serializes the program it holds
Serialize ==
    /\ codec.stage = "none"
    /\ codec' = [codec EXCEPT !.stage = "bytes", !.origin = "serialized",
                              !.bytes = serialize_program(program),
                              !.source = program]
    /\ UNCHANGED <<TheVM, arena, held>>

\* the host is handed bytes from elsewhere
Craft ==
    /\ codec.stage = "none"
    /\ runs = 0
    /\ \E bytes \in CraftedInputs :
          codec' = [codec EXCEPT !.stage = "bytes", !.origin = "crafted",
                                 !.bytes = bytes]
    /\ UNCHANGED <<TheVM, arena, held>>

Undamaged == codec.stage = "bytes" /\ codec.origin = "serialized" /\ codec.damage = "none"

\* the encoding loses its end
Truncate ==
    /\ Undamaged
    /\ \E n \in 0..(Len(codec.bytes) - 1) :
          codec' = [codec EXCEPT !.bytes = SubSeq(@, 1, n), !.damage = "truncated",
                                 !.at = n]
    /\ UNCHANGED <<TheVM, arena, held>>

\* one byte of the encoding is replaced
Substitute ==
    /\ Undamaged
    /\ \E i \in 1..Len(codec.bytes), byte \in TamperBytes :
          /\ codec.bytes[i] # byte
          /\ codec' = [codec EXCEPT !.bytes[i] = byte, !.damage = "substituted",
                                    !.at = i]
    /\ UNCHANGED <<TheVM, arena, held>>

\* a byte follows the encoding
AppendTrailing ==
    /\ Undamaged
    /\ \E byte \in TamperBytes :
          codec' = [codec EXCEPT !.bytes = Append(@, byte), !.damage = "trailing",
                                 !.at = Len(codec.bytes) + 1]
    /\ UNCHANGED <<TheVM, arena, held>>

\* the host calls deserialize_program on the bytes and, given a Program, holds
\* that program from now on; it keeps the result of its last run for comparison
Deserialize ==
    /\ codec.stage = "bytes"
    /\ \E memory \in {"ample", "scarce"} :
        \E got \in {deserialize_program(codec.bytes, heap_next, memory)} :
          /\ codec' = [codec EXCEPT !.stage = "decoded", !.outcome = got.outcome,
                                    !.err = got.err, !.decoded = got.program,
                                    !.offset_ = got.offset_,
                                    !.expected = last_result, !.ran = runs]
          /\ program' = IF got.outcome = "program" THEN got.program ELSE program
          /\ heap_next' = IF got.outcome = "program" THEN got.heap ELSE heap_next
    /\ LoadFrame

InitCodec == InitWith({Scenario(p, <<>>) : p \in CodecPrograms})
NextCodec ==
    RunWhole \/ Serialize \/ Craft \/ Truncate \/ Substitute \/ AppendTrailing
        \/ Deserialize
SpecCodec == InitCodec /\ [][NextCodec]_vars

\* ------------------------------------------------------------------ claims on the codec
\* the same value: a string by its text whoever owns it, a buffer by its bytes
SameValue(a, b) ==
    \/ is_string(a) /\ is_string(b) /\ a.v = b.v
    \/ a.kind = b.kind /\ a.v = b.v
SameProgram(p, q) ==
    /\ p.code = q.code
    /\ p.functions = q.functions
    /\ Len(p.constants) = Len(q.constants)
    /\ \A i \in 1..Len(p.constants) : SameValue(p.constants[i], q.constants[i])
SameResult(a, b) == a.ok = b.ok /\ a.err = b.err /\ SameValue(a.value, b.value)

\* deserialize_program has returned on what serialize_program wrote
RoundTripped ==
    codec.stage = "decoded" /\ codec.origin = "serialized" /\ codec.damage = "none"

\* C24: deserialize_program of what serialize_program wrote for a program
\* succeeds with a program of the same instructions, constants and functions,
\* and a run of the decoded program ends with the result the run of the
\* original ended with
C24_RoundTrip ==
    RoundTripped =>
        /\ codec.outcome = "program"
        /\ SameProgram(codec.decoded, codec.source)
        /\ program = codec.decoded
        /\ (phase = "host" /\ codec.ran > 0 /\ runs > codec.ran) =>
              SameResult(last_result, codec.expected)

\* the program with a constant of every kind but empty came back and ran to
\* the value its original ran to; so did, apart from this, the one with an
\* empty constant
C24_Witness ==
    /\ RoundTripped
    /\ codec.source = RoundTripProgram
    /\ phase = "host" /\ codec.ran > 0 /\ runs > codec.ran
    /\ last_result = Ok(I64(6))
    /\ codec.expected = Ok(I64(6))

\* where the encoding of constant i of p begins, counted from 0
ConstantStart(p, i) ==
    20 + 5 * Len(p.code) + Len(WriteAll(WriteConstant, SubSeq(p.constants, 1, i - 1)))

\* C27: a string constant, borrowed or owned, is written as tag 3, the length
\* as u32 and the bytes of the text; deserialize_program makes an owned string
\* of the same bytes of it
C27_Strings ==
    /\ (codec.stage = "bytes" /\ codec.origin = "serialized" /\ codec.damage = "none") =>
          \A i \in 1..Len(codec.source.constants) :
              LET constant == codec.source.constants[i]
                  start == ConstantStart(codec.source, i)
              IN  is_string(constant) =>
                      SubSeq(codec.bytes, start + 1, start + 5 + Len(constant.v))
                          = <<3, Len(constant.v), 0, 0, 0>> \o constant.v
    /\ RoundTripped =>
          /\ codec.outcome = "program"
          /\ Len(codec.decoded.constants) = Len(codec.source.constants)
          /\ \A i \in 1..Len(codec.source.constants) :
                is_string(codec.source.constants[i]) =>
                    codec.decoded.constants[i] = OwnedString(codec.source.constants[i].v)

\* a program with a borrowed and an owned string constant came back
C27_Witness ==
    /\ RoundTripped
    /\ \E i, j \in 1..Len(codec.source.constants) :
          /\ codec.source.constants[i].kind = "borrowed_string"
          /\ codec.source.constants[j].kind = "owned_string"
          /\ codec.decoded.constants[i].kind = "owned_string"

\* the fields of the header, as far as the input has them
HeaderRead == Len(codec.bytes) >= 20
MagicField == SubSeq(codec.bytes, 1, 4)
VersionField == SubSeq(codec.bytes, 5, 6)
MagicDiffers == MagicField # write_u32(bytecode_magic)
VersionDiffers == VersionField # write_u16(bytecode_version)
Refused(err) == codec.outcome = "error" /\ codec.err = err

\* C25, as the specification words it: an input of 16 bytes or more whose
\* magic differs is refused with invalid_bytecode_magic
C25_MagicOfSixteen ==
    (codec.stage = "decoded" /\ Len(codec.bytes) >= 16 /\ MagicDiffers) =>
        Refused("invalid_bytecode_magic")

\* C25: an input of 20 bytes or more, the header the decoder reads, is refused
\* with invalid_bytecode_magic when its magic differs, whatever follows, and
\* with unsupported_bytecode_version when the magic matches and the version
\* differs; in both cases nothing beyond the header was read.  A shorter
\* input is refused with malformed_bytecode whatever its magic
C25_MagicThenVersion ==
    codec.stage = "decoded" =>
        /\ (HeaderRead /\ MagicDiffers) =>
              Refused("invalid_bytecode_magic") /\ codec.offset_ = 20
        /\ (HeaderRead /\ ~MagicDiffers /\ VersionDiffers) =>
              Refused("unsupported_bytecode_version") /\ codec.offset_ = 20
        /\ ~HeaderRead => Refused("malformed_bytecode")

\* an input with a wrong magic, a wrong version, a count no input can honour
\* and a payload cut short was refused for its magic; so was, apart from this,
\* an encoding whose last magic byte was replaced
C25_Witness ==
    /\ codec.stage = "decoded"
    /\ HeaderRead /\ MagicDiffers /\ VersionDiffers
    /\ SubSeq(codec.bytes, 13, 16) = write_u32(ScarceFrom)
    /\ Len(codec.bytes) = 22
    /\ Refused("invalid_bytecode_magic")

\* the input is cut short: an encoding that lost its end, or a header that
\* announces entries and ends the input
Truncated ==
    \/ codec.origin = "serialized" /\ codec.damage = "truncated"
    \/ /\ Len(codec.bytes) = 20
       /\ SubSeq(codec.bytes, 9, 20) # <<0, 0, 0, 0, 0, 0, 0, 0, 0, 0, 0, 0>>
\* the tag of a constant of the encoding was replaced by none of 0..4
BadTag ==
    /\ codec.origin = "serialized" /\ codec.damage = "substituted"
    /\ \E i \in 1..Len(codec.source.constants) :
          codec.at = ConstantStart(codec.source, i) + 1
    /\ codec.bytes[codec.at] > 4
Trailing == codec.origin = "serialized" /\ codec.damage = "trailing"

\* C26: an input with the right magic and version that is cut short anywhere,
\* holds a constant tag outside 0..4 or has bytes after the last function is
\* refused with malformed_bytecode, and no Program is returned; the reader
\* never goes beyond the end of the input
C26_Malformed ==
    codec.stage = "decoded" =>
        /\ codec.offset_ <= Len(codec.bytes)
        /\ ((HeaderRead => ~MagicDiffers /\ ~VersionDiffers)
                /\ (Truncated \/ BadTag \/ Trailing)) =>
              Refused("malformed_bytecode")

\* ================================================================== buffers in the host's hands
\* calls of take_buffer the host makes on one Value
MaxTakes == 2

\* the program of the buffer test: the input goes to the native and comes back
IdentityBufferProgram ==
    Prog(<<Ins("push_input", 0), Ins("call_native", 0), Ins("halt", 0)>>, <<>>, <<>>)

\* MoveBuffer payload(2) with 0x2A in its first byte, allocated at `fresh`
Payload(fresh) == OwnedBuffer(fresh, <<42, 0>>)
\* a Value of every kind; the buffers are the payload and MoveBuffer(0)
HostValues(fresh) ==
    {EmptyValue, I64(2), F64(ThreeAndAHalf), BorrowedString(<<104, 105>>),
     OwnedString(<<104, 105>>), Payload(fresh), OwnedBuffer(0, <<>>)}

BufferFrame ==
    UNCHANGED <<program, build, to_bind, stack_, call_frames_, inputs_,
                native_bindings_, step_budget_, trace_sink_, profiling_enabled_,
                profile_stats_, pc, executed_steps, phase, entry, last_result, runs,
                run_start, trace_events, native_calls, traversal, arena, codec>>

\* the host makes a Value, of a buffer it allocated or of something else
Wrap ==
    /\ held.stage = "none"
    /\ phase = "host"
    /\ \E val \in HostValues(heap_next) :
          /\ held' = [NothingHeld EXCEPT !.stage = "value", !.value = val,
                                         !.from = "host"]
          /\ heap_next' = IF val = Payload(heap_next) THEN heap_next + 1 ELSE heap_next
    /\ BufferFrame

\* the host calls take_buffer on the Value it holds
TakeBuffer ==
    /\ held.stage = "value"
    /\ Len(held.history) < MaxTakes
    /\ \E taken \in {take_buffer(held.value)} :
          held' = [held EXCEPT !.value = taken.value,
                               !.history = Append(@, [before |-> held.value,
                                                      ok |-> taken.ok, err |-> taken.err,
                                                      buffer |-> taken.buffer])]
    /\ BufferFrame /\ UNCHANGED heap_next

\* vm.push_input(std::move(value)): the Value goes into an input slot; the
\* native writes a second byte, so the host gives it no MoveBuffer(0)
PushHeld ==
    /\ Configuring
    /\ held.stage = "value"
    /\ held.value # OwnedBuffer(0, <<>>)
    /\ Len(inputs_) < InputSlots(program)
    /\ inputs_' = Append(inputs_, held.value)
    /\ held' = NothingHeld
    /\ UNCHANGED <<program, build, to_bind, traversal, arena, codec, RunVars,
                   ObserverVars, native_bindings_, step_budget_>>

\* the host takes the Value the last run returned
AdoptResult ==
    /\ phase = "host" /\ runs > 0 /\ last_result.ok
    /\ held.stage = "none"
    /\ held' = [NothingHeld EXCEPT !.stage = "value", !.value = last_result.value,
                                   !.from = "run", !.given = run_start.inputs]
    /\ BufferFrame /\ UNCHANGED heap_next

InitBuffer == InitWith({Scenario(IdentityBufferProgram, <<IdentityBuffer>>)})
NextBuffer ==
    Wrap \/ TakeBuffer \/ PushHeld \/ AdoptResult \/ BindNative \/ Run
        \/ StepPushInput \/ StepCallNative \/ StepHalt
SpecBuffer == InitBuffer /\ [][NextBuffer]_vars

\* C28: take_buffer on a Value that holds a buffer returns that buffer and
\* leaves the Value empty, so that a second take_buffer fails; on a Value of
\* any other kind it fails with invalid_buffer_access and leaves the Value
\* as it was
C28_TakeBuffer ==
    /\ \A i \in 1..Len(held.history) :
          LET take == held.history[i]
              after == IF i = Len(held.history) THEN held.value
                       ELSE held.history[i + 1].before
          IN  IF is_buffer(take.before)
              THEN /\ take.ok
                   /\ take.buffer = [ptr |-> take.before.ptr, bytes |-> take.before.v]
                   /\ after = EmptyValue
              ELSE /\ ~take.ok
                   /\ take.err = "invalid_buffer_access"
                   /\ after = take.before
    /\ (Len(held.history) = 2 /\ held.history[1].ok) =>
          ~held.history[2].ok /\ held.history[2].err = "invalid_buffer_access"

\* the payload was taken out of the host's Value, and a second take failed
C28_Witness ==
    /\ Len(held.history) = 2
    /\ held.from = "host"
    /\ is_buffer(held.history[1].before) /\ held.history[1].before.v # <<>>
    /\ held.history[1].ok
    /\ ~held.history[2].ok

\* a buffer that holds bytes
NonEmptyBuffer(val) == is_buffer(val) /\ val.v # <<>>
\* the same allocation of the same size
SameBuffer(val, ptr, size) == is_buffer(val) /\ val.ptr = ptr /\ Len(val.v) = size
\* the run under way, or the last one, was given a buffer that holds bytes as
\* its only input and passed verify
GivenBuffer ==
    /\ runs > 0 /\ entry = "run" /\ run_start.verdict = "none"
    /\ Len(run_start.inputs) = 1 /\ NonEmptyBuffer(run_start.inputs[1])

\* C29: a MoveBuffer that holds bytes keeps its data pointer and its size from
\* the host's Value through push_input, the push_input opcode, the native that
\* takes and returns it, halt and the host's take_buffer; nothing but the
\* host's own allocation allocates, and at no point are there two of it
C29_BufferIdentity ==
    /\ [][heap_next' # heap_next => held.stage = "none" /\ held'.from = "host"]_vars
    /\ [](GivenBuffer =>
            LET given == run_start.inputs[1]
            IN  /\ (phase = "running" /\ pc = 0) =>
                      inputs_ = <<given>> /\ stack_ = <<>>
                /\ (phase = "running" /\ pc = 1) =>
                      inputs_ = <<EmptyValue>> /\ stack_ = <<given>>
                /\ (phase = "running" /\ pc = 2) =>
                      /\ inputs_ = <<EmptyValue>>
                      /\ Len(stack_) = 1
                      /\ SameBuffer(stack_[1], given.ptr, Len(given.v))
                /\ phase = "host" =>
                      /\ last_result.ok
                      /\ SameBuffer(last_result.value, given.ptr, Len(given.v))
                      /\ inputs_ = <<EmptyValue>>)
    /\ []((held.from = "run" /\ Len(held.given) = 1 /\ NonEmptyBuffer(held.given[1])
              /\ held.history # <<>>) =>
            /\ held.history[1].ok
            /\ held.history[1].buffer.ptr = held.given[1].ptr
            /\ Len(held.history[1].buffer.bytes) = Len(held.given[1].v))

\* the host took out of the result of a run the buffer it had pushed, with the
\* byte the native wrote in it
C29_Witness ==
    /\ held.from = "run"
    /\ Len(held.given) = 1 /\ NonEmptyBuffer(held.given[1])
    /\ held.history # <<>>
    /\ held.history[1].ok
    /\ held.history[1].buffer = [ptr |-> held.given[1].ptr, bytes |-> <<42, 85>>]

\* ================================================================== tracing
\* the events the step emitted
Emitted == SubSeq(trace_events', Len(trace_events) + 1, Len(trace_events'))
\* the event of the instruction at pc, as things are before it takes effect
EventHere ==
    [pc |-> pc, opcode |-> Fetched, stack_size |-> Len(stack_),
     call_depth |-> Len(call_frames_)]
\* the step dispatches a push_constant that takes the fused path: the binary
\* instruction after it is carried out in the same step
FusedPath ==
    /\ Dispatching /\ Fetched = "push_constant"
    /\ InstrAt(program, pc).operand < Len(program.constants)
    /\ is_i64(program.constants[InstrAt(program, pc).operand + 1])
    /\ pc + 1 < CodeSize(program)
    /\ stack_ # <<>> /\ is_i64(Back(stack_))
    /\ InstrAt(program, pc + 1).opcode \in BinaryOpcodes
\* the instructions the step carries out
Executes(at) == Dispatching /\ (at = pc \/ (at = pc + 1 /\ FusedPath))
\* a call of run or run_unchecked begins: the events of the call before are put away
CallBegins == runs' = runs + 1

\* C30, as the specification words it: with a trace sink installed, every
\* instruction a step carries out has its event in what the step emits
C30_EveryInstruction ==
    [][trace_sink_ =>
          \A at \in 0..(CodeSize(program) - 1) :
              Executes(at) => \E i \in 1..Len(Emitted) : Emitted[i].pc = at]_vars

\* C30: with a trace sink installed every dispatched step emits exactly one
\* event, after the events before it, with the pc, the opcode, the stack size
\* and the call depth as they are before the step takes effect; a
\* push_constant that takes the fused path emits this one event for the two
\* instructions it carries out.  Nothing else emits, and with no sink
\* installed, as after clear_trace_sink, no step emits
C30_EveryStep ==
    [][IF CallBegins THEN TRUE
       ELSE IF Dispatching /\ trace_sink_
       THEN trace_events' = Append(trace_events, EventHere)
       ELSE trace_events' = trace_events]_vars
        /\ [](~trace_sink_ /\ phase = "running" => trace_events = <<>>)

\* a traced run of the program that calls a function has returned: the sink
\* got the events of the steps in order, the fused push_constant at pc 4 among
\* them and none for the add_i64 at pc 5
C30_Witness ==
    /\ trace_sink_ /\ phase = "host" /\ runs > 0 /\ last_result.ok
    /\ Len(trace_events) >= 4
    /\ \E i \in 1..(Len(trace_events) - 1) :
          /\ trace_events[i].opcode = "push_constant"
          /\ InstrAt(program, trace_events[i].pc + 1).opcode \in BinaryOpcodes
          /\ trace_events[i + 1].pc = trace_events[i].pc + 2
    /\ \A i \in 1..Len(trace_events) : trace_events[i].opcode \notin BinaryOpcodes

\* ================================================================== profiling
\* every counter of a profile at zero
ZeroProfile ==
    [runs |-> 0, executed_steps |-> 0,
     opcode_counts |-> [o \in DOMAIN profile_stats_.opcode_counts |-> 0]]
\* the per-opcode counts of a profile, added up
RECURSIVE SumCounts(_, _)
SumCounts(counts, opcodes) ==
    IF opcodes = {} THEN 0
    ELSE LET o == CHOOSE x \in opcodes : TRUE
         IN counts[o] + SumCounts(counts, opcodes \ {o})
OpcodeTotal(prof) == SumCounts(prof.opcode_counts, DOMAIN prof.opcode_counts)
\* the step leaves the loop of run_unchecked: the call returns
CallReturns == phase = "running" /\ phase' = "host"
\* what a step of a profiled run leaves in the counters: the dispatched
\* instruction counted once in executed_steps and once under its opcode, and
\* the run counted when the call returns
Counted ==
    [runs |-> profile_stats_.runs + (IF CallReturns THEN 1 ELSE 0),
     executed_steps |-> profile_stats_.executed_steps + (IF Dispatching THEN 1 ELSE 0),
     opcode_counts |->
         [o \in DOMAIN profile_stats_.opcode_counts |->
             profile_stats_.opcode_counts[o]
                 + (IF Dispatching /\ o = Fetched THEN 1 ELSE 0)]]

\* C31: with profiling enabled every call of run_unchecked adds exactly one to
\* profile.runs when it returns, with a result or with an error, and every
\* dispatched step adds one to profile.executed_steps and one to the count of
\* its opcode, as it adds one trace event when a sink is installed; a step the
\* budget refuses adds to runs only.  With profiling disabled no step changes
\* a counter.  Outside a run the counters change only by reset_profile, which
\* leaves every one of them at zero.  executed_steps is always the total of
\* the per-opcode counts
C31_ProfileCounters ==
    [][IF phase = "running"
       THEN /\ profile_stats_' = IF profiling_enabled_ THEN Counted ELSE profile_stats_
            /\ trace_sink_ /\ profiling_enabled_ =>
                  Len(Emitted) = profile_stats_'.executed_steps
                                     - profile_stats_.executed_steps
            /\ phase' = "running" =>
                  executed_steps' = executed_steps + (IF Dispatching THEN 1 ELSE 0)
       ELSE profile_stats_' # profile_stats_ => profile_stats_' = ZeroProfile]_vars
        /\ [](profile_stats_.executed_steps = OpcodeTotal(profile_stats_))

\* a profiled and traced run that the step budget ended has returned: the run
\* is counted, and the steps counted are the events the sink received, as
\* many as the budget allows: the refused step is not among them
C31_Witness ==
    /\ phase = "host" /\ profiling_enabled_ /\ trace_sink_
    /\ last_result.err = "step_budget_exceeded"
    /\ profile_stats_.runs = 1
    /\ profile_stats_.executed_steps = Len(trace_events)
    /\ Len(trace_events) = run_start.budget
    /\ Len(trace_events) >= 2
    /\ OpcodeTotal(profile_stats_) = Len(trace_events)

\* ================================================================== determinism
\* the second VM: newly constructed, given the program, the inputs, the
\* bindings and the step budget the last call found, and called the same way,
\* with the trace sink and the profiling as they are set now
SecondVM == FreshCall(entry, run_start.inputs, run_start.budget)
\* the last call found a VM like a new one but for its observers: it entered
\* run_unchecked, which clears what an earlier run left, or nothing was left
LikeNew == LoopRan \/ ~run_start.residue

\* two VMs side by side: the host sets a VM up, pushing inputs, binding
\* natives and setting the step budget, before the first call only; from then
\* on it calls run and run_unchecked and switches the observers
BindFirst == runs = 0 /\ BindNative
PushInputFirst == runs = 0 /\ PushInput
SetStepBudgetFirst == runs = 0 /\ SetStepBudget
NextTwin ==
    BindFirst \/ PushInputFirst \/ SetStepBudgetFirst \/ RunUnchecked \/ Run
        \/ Step \/ Observe
SpecTwin == InitObserved /\ [][NextTwin]_vars

\* C32: a call of run or run_unchecked returns what the same call returns on a
\* second VM given the same program, inputs, bindings and step budget, and
\* leaves the same stack, call frames and input slots, however the trace sink
\* and the profiling are set on either of the two
C32_Deterministic ==
    /\ (Returned /\ LikeNew) =>
          /\ last_result = SecondVM.result
          /\ stack_ = SecondVM.stack
          /\ call_frames_ = SecondVM.frames
          /\ inputs_ = SecondVM.inputs
    /\ (phase = "aborted" /\ Len(native_bindings_) = run_start.natives) =>
          SecondVM.phase = "aborted"

\* a run that the step budget ended inside a function was traced and profiled,
\* and both are switched off now: the untraced, unprofiled second VM ends the
\* same way, with the same values and the same frame left behind
C32_Witness ==
    /\ Returned /\ LikeNew
    /\ ~trace_sink_ /\ trace_events # <<>>
    /\ ~profiling_enabled_ /\ profile_stats_.runs > 0
    /\ last_result.err = "step_budget_exceeded"
    /\ call_frames_ # <<>>
    /\ call_frames_ = SecondVM.frames /\ stack_ = SecondVM.stack

\* ================================================================== i64 arithmetic
\* the step carries out the binary opcode op on two i64 operands: popped from
\* the stack by the opcode itself, or taken by a fused push_constant
UnfusedPoint(op) ==
    /\ Dispatching /\ Fetched = op
    /\ Len(stack_) >= 2
    /\ is_i64(Back(stack_)) /\ is_i64(stack_[Len(stack_) - 1])
FusedPoint(op) == FusedPath /\ InstrAt(program, pc + 1).opcode = op
OperationPoint(op) == UnfusedPoint(op) \/ FusedPoint(op)
\* its operands
Lhs == IF FusedPath THEN Back(stack_).v ELSE stack_[Len(stack_) - 1].v
Rhs == IF FusedPath THEN PushedConstant.v ELSE Back(stack_).v
\* the mathematical result
Exact(op, l, r) ==
    CASE op = "add_i64" -> l + r
      [] op = "sub_i64" -> l - r
      [] op = "mul_i64" -> l * r
\* the step pushed the i64 n in place of the operands and the run goes on
Yields(n) ==
    /\ phase' = "running"
    /\ stack_' = Append(SubSeq(stack_, 1, Len(stack_) - (IF FusedPath THEN 1 ELSE 2)),
                        I64(n))

\* C33: add_i64, sub_i64 and mul_i64 on two i64 operands, fused or not, push
\* the mathematical result reduced to the two's-complement range, and
\* cmp_eq_i64 and cmp_lt_i64 push 1 or 0; no run fails with arithmetic_overflow
C33_Wraps ==
    [][/\ \A op \in {"add_i64", "sub_i64", "mul_i64"} :
             OperationPoint(op) => Yields(WrapI64(Exact(op, Lhs, Rhs)))
       /\ OperationPoint("cmp_eq_i64") => Yields(IF Lhs = Rhs THEN 1 ELSE 0)
       /\ OperationPoint("cmp_lt_i64") => Yields(IF Lhs < Rhs THEN 1 ELSE 0)]_vars
        /\ [](last_result.err # "arithmetic_overflow")

\* the step ended the run with the error `kind`
Returns(kind) == phase' = "host" /\ last_result' = Err(kind)
\* the step pushed nothing: a fused push_constant leaves the stack as it is,
\* the opcode on its own has popped its two operands
NothingPushed ==
    stack_' = IF FusedPath THEN stack_ ELSE SubSeq(stack_, 1, Len(stack_) - 2)
Shifts == {"shl_i64", "shr_i64"}

\* C34: on two i64 operands, fused or not, mod_i64 with divisor 0 ends the run
\* with division_by_zero, and shl_i64 and shr_i64 with a shift amount below 0
\* or above the highest bit position end it with invalid_shift_amount, nothing
\* being pushed; with any other divisor or shift amount the step does not
\* return these errors
C34_DivisorAndShift ==
    [][/\ OperationPoint("mod_i64") =>
             IF Rhs = 0 THEN Returns("division_by_zero") /\ NothingPushed
             ELSE ~Returns("division_by_zero")
       /\ \A op \in Shifts :
             OperationPoint(op) =>
                 IF Rhs \notin 0..MaxShift
                 THEN Returns("invalid_shift_amount") /\ NothingPushed
                 ELSE ~Returns("invalid_shift_amount")]_vars

\* a fused mod_i64 by the constant 0 has ended the run: the left operand is
\* still on the stack
C34_Witness ==
    /\ Returned /\ last_result = Err("division_by_zero")
    /\ Len(stack_) = 1 /\ is_i64(Back(stack_))
    /\ \E i \in 1..(CodeSize(program) - 1) :
          /\ program.code[i].opcode = "push_constant"
          /\ program.code[i + 1].opcode = "mod_i64"
          /\ program.constants[program.code[i].operand + 1] = I64(0)

\* ================================================================== explicit arity
\* natives bound through the builder with and without an explicit arity, called
\* over constants and over an input of any kind, with run and run_unchecked
NativeScenarios ==
    {Scenario(NativeProbeProgram, <<Bad, Depth2>>), Scenario(NativeProgram, <<Bad>>),
     Scenario(NativeOneArgumentProgram, <<Bad>>),
     Scenario(NativeOneArgumentProgram, <<Identity>>)}
InitNative == InitWith(NativeScenarios)
NextNative ==
    BindNative \/ PushInput \/ RunUnchecked \/ Run
        \/ StepPushConstant \/ StepPushInput \/ StepCallNative \/ StepHalt
SpecNative == InitNative /\ [][NextNative]_vars

\* the binding the call_native at pc names
CalledBinding == native_bindings_[InstrAt(program, pc).operand + 1]
\* the step calls a native whose callable takes another number of Values than
\* the arity it was bound with, with that many values on the stack
MismatchedCall ==
    /\ Dispatching /\ Fetched = "call_native"
    /\ InstrAt(program, pc).operand < Len(native_bindings_)
    /\ CalledBinding.function # NullFunction
    /\ ParameterCount(CalledBinding.function) \notin {None, CalledBinding.arity}
    /\ Len(stack_) >= CalledBinding.arity
\* bind_native registered the binding as it was given, explicit arity included
Registered ==
    \A i \in 1..Len(native_bindings_) : native_bindings_[i] = to_bind[i]

\* C35: a native bound with an explicit arity other than the number of Value
\* parameters of its callable is registered with that arity, and verify,
\* which pops the declared arity, accepts a program that supplies as many
\* values; every call_native that reaches it with that many values on the
\* stack ends the run with invalid_function_signature, whatever the values
\* are, leaving them on the stack: the callable returned nothing
C35_ExplicitArity ==
    [][MismatchedCall => Returns("invalid_function_signature") /\ stack_' = stack_]_vars
        /\ [](Registered)
        /\ [](native_bindings_ = <<Bad, Depth2>> =>
                  Verify(program, Len(inputs_), native_bindings_).err = "none")

\* run has verified the program that calls the native bound with arity 2 over
\* a one-parameter callable, and returned invalid_function_signature with the
\* two arguments still on the stack
C35_Witness ==
    /\ Returned /\ entry = "run" /\ run_start.verdict = "none"
    /\ native_bindings_ = <<Bad, Depth2>>
    /\ last_result = Err("invalid_function_signature")
    /\ stack_ = <<I64(1), I64(2)>>
    /\ native_calls = 1

\* ================================================================== jumps
\* the operand of the instruction at pc
Operand == InstrAt(program, pc).operand
\* a jump to a pc inside the code is about to be dispatched
JumpPoint == Dispatching /\ Fetched = "jump" /\ Operand < CodeSize(program)
\* a jump_if_true to a pc inside the code is about to be dispatched over a
\* stack that holds a value
BranchPoint ==
    /\ Dispatching /\ Fetched = "jump_if_true" /\ Operand < CodeSize(program)
    /\ stack_ # <<>>

CallerSlots == SubSeq(stack_, 1, Back(call_frames_).base)
\* an instruction is about to be dispatched inside a function, in a run of a
\* program that verify accepted
InCallee == Dispatching /\ run_start.verdict = "none" /\ call_frames_ # <<>>

\* C37: in a run of a program that verify accepted, no step inside a function
\* removes or overwrites a stack slot below the base of the function's frame,
\* and the ret that ends the function leaves exactly those slots followed by
\* the return value
C37_FrameIsolation ==
    [][InCallee =>
          /\ Len(stack_') >= Len(CallerSlots)
          /\ SubSeq(stack_', 1, Len(CallerSlots)) = CallerSlots
          /\ (Fetched = "ret" /\ stack_ # <<>>) =>
                 /\ phase' = "running"
                 /\ stack_' = Append(CallerSlots, Back(stack_))]_vars

\* ================================================================== what verify visits
\* the PCs one edge away from the PCs of S, fallthrough or explicit jump; a
\* call has its fallthrough edge only
RECURSIVE Closure(_, _)
Closure(S, rounds) ==
    LET grown == S \cup {to \in 0..(CodeSize(program) - 1) :
                            \E at \in S : to \in Successors(InstrAt(program, at), at)}
    IN IF rounds = 0 \/ grown = S THEN S ELSE Closure(grown, rounds - 1)
\* the PCs reachable from pc 0
Reachable == Closure({0} \cap (0..(CodeSize(program) - 1)), CodeSize(program))
\* the PCs verify has recorded a depth for: those it has put on the worklist
Enqueued == {at \in 0..(CodeSize(program) - 1) : traversal.st.depths[at + 1] # None}
\* the program with the instruction at `at` replaced by one that verify would
\* refuse wherever it met it
Spoiled(at) ==
    [program EXCEPT !.code[at + 1] = Ins(UnknownOpcode, MaxCode + 7)]
VerifyError(p) == Verify(p, Len(inputs_), native_bindings_).err

\* C38: verify visits only PCs reachable from pc 0 by fallthrough and jump
\* edges, call counting as an instruction with a fallthrough edge only, and
\* when it accepts it has visited every one of them.  What stands at any other
\* pc, the body of a function reached by call only included, has no part in
\* its answer: verify answers the same with an unknown opcode there
C38_VisitsReachable ==
    /\ traversal.status # "idle" => Enqueued \subseteq Reachable
    /\ VisitPoint => VisitedPc \in Reachable
    /\ traversal.status = "accepted" => Enqueued = Reachable
    /\ \A at \in (0..(CodeSize(program) - 1)) \ Reachable :
          VerifyError(Spoiled(at)) = VerifyError(program)

\* verify has accepted a program that calls a function whose body, reached by
\* no fallthrough and no jump, holds an unknown opcode
C38_Witness ==
    /\ traversal.status = "accepted"
    /\ \E at \in Reachable : InstrAt(program, at).opcode = "call"
    /\ \E at \in (0..(CodeSize(program) - 1)) \ Reachable :
          /\ InstrAt(program, at).opcode \notin OpCodes
          /\ \E i \in 1..Len(program.functions) : program.functions[i].entry = at

\* ================================================================== verify terminates
\* verify is scheduled until it returns
SpecVerifyLive == SpecVerify /\ WF_vars(NextVerify)

Traversing == traversal.status = "traversing"
\* the PCs waiting on the worklist
Waiting == {traversal.st.worklist[i] : i \in 1..Len(traversal.st.worklist)}
\* the iterations the loop has left at most: one for every pc that waits and
\* one for every pc that has no depth yet
Measure == Len(traversal.st.worklist) + (CodeSize(program) - Cardinality(Enqueued))

\* C39: verify returns, loops in the program or not.  Once a depth is recorded
\* for a pc it stays; the pcs on the worklist are distinct, each with its
\* depth recorded, and an iteration puts a pc on the worklist only when it had
\* no depth, so that no pc gets there twice; every iteration that goes on
\* leaves one iteration fewer of at most code-size many
C39_Terminates ==
    /\ [][Traversing =>
            /\ \A at \in Enqueued :
                  traversal'.st.depths[at + 1] = traversal.st.depths[at + 1]
            /\ Len(traversal'.st.worklist) =
                  Len(traversal.st.worklist) - (IF VisitPoint THEN 1 ELSE 0)
                      + Cardinality(Enqueued' \ Enqueued)
            /\ (VisitPoint /\ Traversing') => Measure' = Measure - 1]_vars
    /\ [](Traversing =>
            /\ Cardinality(Waiting) = Len(traversal.st.worklist)
            /\ Waiting \subseteq Enqueued
            /\ Measure \in 0..CodeSize(program))
    /\ <>(traversal.status \in {"accepted", "rejected"})

\* verify has accepted a program in which a jump leads back to a pc visited
\* before
C39_Witness ==
    /\ traversal.status = "accepted"
    /\ \E at \in Enqueued :
          /\ InstrAt(program, at).opcode \in {"jump", "jump_if_true"}
          /\ InstrAt(program, at).operand <= at

\* ================================================================== an arena used in any order
\* the host keeps no order: any Marker is destroyed or assigned to at any time,
\* reset() is called with Markers outstanding, and the Arena is destroyed at
\* the end.  gone tells that ~Arena ran
\* one object fewer than under the nested discipline
EmplaceFew == ~arena.gone /\ arena.emplaced < MaxObjects - 1 /\ Emplace
MarkAnyTime == ~arena.gone /\ Mark
ReleaseAnyMarker == ~arena.gone /\ ReleaseMarker

DestroyMarkerAnyOrder ==
    \E k \in Markers :
        /\ ~arena.gone
        /\ arena.markers[k].live
        /\ arena' = MarkerDestroy(arena, k)
        /\ UNCHANGED <<TheVM, codec, held>>

MoveAssignMarkerAnyOrder ==
    \E t \in Markers, s \in Markers :
        /\ ~arena.gone
        /\ arena.markers[t].live
        /\ arena.markers[s].live
        /\ arena' = MarkerMoveAssign(arena, t, s)
        /\ UNCHANGED <<TheVM, codec, held>>

ResetAnyTime ==
    /\ ~arena.gone
    /\ arena' = ArenaReset(arena)
    /\ UNCHANGED <<TheVM, codec, held>>

\* Arena::~Arena
DestroyArena ==
    /\ ~arena.gone
    /\ arena' = [ArenaReset(arena) EXCEPT !.gone = TRUE]
    /\ UNCHANGED <<TheVM, codec, held>>

NextArenaAnyOrder ==
    EmplaceFew \/ MarkAnyTime \/ ReleaseAnyMarker \/ DestroyMarkerAnyOrder
        \/ MoveAssignMarkerAnyOrder \/ ResetAnyTime \/ DestroyArena
SpecArenaAnyOrder == InitArena /\ [][NextArenaAnyOrder]_vars

\* the objects on the tracking list
Tracked == {arena.tracked[i].object : i \in 1..Len(arena.tracked)}
\* how often the destructor of object o has run
TimesDestroyed(o) ==
    Cardinality({i \in 1..Len(arena.destroyed) : arena.destroyed[i] = o})
\* the step is a call of reset() on an arena that tracks objects, which cuts
\* the tracking list and touches no Marker, or the destruction of the Arena
ResetsOrEnds ==
    \/ arena'.markers = arena.markers /\ Len(arena'.tracked) < Len(arena.tracked)
    \/ arena'.gone

\* C40: whatever the order of emplace, mark, Marker destruction, release,
\* move assignment, reset and the destruction of the Arena, no destructor
\* of an emplaced object runs twice: an object is either on the tracking list,
\* not destroyed, or off it, destroyed once.  reset and the destruction of the
\* Arena leave every object emplaced so far destroyed exactly once.  The
\* destruction of a Marker whose mark lies beyond the tracking list runs no
\* destructor and leaves the list as it is
C40_DestroyedOnce ==
    /\ [][/\ ResetsOrEnds =>
                /\ arena'.tracked = <<>>
                /\ \A o \in 1..arena.emplaced :
                      Cardinality({i \in 1..Len(arena'.destroyed) :
                                      arena'.destroyed[i] = o}) = 1
          /\ \A k \in Markers :
                (Destroys(k) /\ Armed(k)
                    /\ arena.markers[k].rewind_to_ > Len(arena.tracked)) =>
                    Ran = <<>> /\ arena'.tracked = arena.tracked]_vars
    /\ [](\A o \in 1..arena.emplaced :
             TimesDestroyed(o) = IF o \in Tracked THEN 0 ELSE 1)
    /\ [](Len(arena.destroyed) + Len(arena.tracked) = arena.emplaced)

\* an outer Marker was destroyed, rewinding, while an inner one taken after it
\* is outstanding: the mark of the inner one lies beyond the tracking list,
\* and the object emplaced between the two marks is destroyed
C40_Witness ==
    /\ ~arena.gone /\ Len(arena.markers) = 2
    /\ ~arena.markers[1].live /\ arena.markers[1].ended >= 0
    /\ Armed(2)
    /\ arena.markers[1].born < arena.markers[2].born
    /\ arena.markers[2].rewind_to_ > Len(arena.tracked)
    /\ arena.destroyed # <<>>

====
